---- MODULE Spec2Model ----
(***************************************************************************)
(* Model of mapsutils.py: the query encoder, the two map services          *)
(* (OpenService = Nominatim with Bing fallback, BingService), and the      *)
(* lazily processed entities Localizacion and Ruta.                        *)
(*                                                                         *)
(* Every method is an operator that takes the object (a record of its      *)
(* attributes), the answers the remote services give during the call (an   *)
(* oracle record), and returns the object after the call, the value or     *)
(* exception of the call, and the remote calls it issued in order.         *)
(* Text is a sequence of one-character strings; coordinates are whole      *)
(* degrees.                                                                *)
(***************************************************************************)
EXTENDS Integers, Sequences, FiniteSets, TLC

(***************************************************************************)
(* Bounds of the model.                                                    *)
(***************************************************************************)
\* longest address text a geocoder answers with
MaxAddrLen == 2
\* longest list of intermediate stops of a route
MaxVias == 2
\* how far from a range bound the coordinates given to the encoder lie
MaxOver == 2
\* longest list of intermediate stops of a route whose image is asked
MaxParadas == 1

(***************************************************************************)
(* Python values: None, str, tuple/list; dictionaries are functions from   *)
(* key strings to values.                                                  *)
(***************************************************************************)
None == [kind |-> "None", val |-> <<>>]

PyStr(s) == [kind |-> "str", val |-> s]

PyTuple(t) == [kind |-> "tuple", val |-> t]

EmptyDict == <<>>

PyDict(d) == [kind |-> "dict", val |-> d]

PyBool(b) == [kind |-> "bool", val |-> b]

\* d.update(e): the entries of e replace those of d
DictUpdate(d, e) == e @@ d

\* a call that returns v / a call that raises the exception named e
Return(v) == [err |-> "ok", val |-> v]

Raise(e) == [err |-> e, val |-> None]

(***************************************************************************)
(* str() of an int and its inverse, the JSON number of json.loads.         *)
(***************************************************************************)
Digit(n) == <<"0", "1", "2", "3", "4", "5", "6", "7", "8", "9">>[n + 1]

RECURSIVE NatStr(_)
NatStr(n) == IF n < 10 THEN <<Digit(n)>> ELSE NatStr(n \div 10) \o <<Digit(n % 10)>>

str(n) == IF n < 0 THEN <<"-">> \o NatStr(-n) ELSE NatStr(n)

IsDigit(c) == c \in {"0", "1", "2", "3", "4", "5", "6", "7", "8", "9"}

DigitVal(c) == CHOOSE n \in 0..9 : Digit(n) = c

(***************************************************************************)
(* Query encoder.                                                          *)
(***************************************************************************)
\* a mutation of _tuple_LatLng_to_string: the bounds themselves are refused
_tuple_LatLng_to_string_strict(latlng) ==
    LET lat == latlng[1]
        lng == latlng[2]
    IN  IF lat >= 90 \/ lat <= -90 THEN Raise("Latitud invalida")
        ELSE IF lng >= 180 \/ lng <= -180 THEN Raise("Longitud invalida")
        ELSE Return(PyStr(str(lat) \o <<",">> \o str(lng)))

_tuple_LatLng_to_string(latlng) ==
    LET lat == latlng[1]
        lng == latlng[2]
    IN  IF lat > 90 \/ lat < -90 THEN Raise("Latitud invalida")
        ELSE IF lng > 180 \/ lng < -180 THEN Raise("Longitud invalida")
        ELSE Return(PyStr(str(lat) \o <<",">> \o str(lng)))

\* a tuple or list is a latitude and longitude, a str is an address, and
\* for anything else the function falls off its end and returns None
_posicion_a_string_url(ubicacion) ==
    IF ubicacion.kind = "tuple" THEN _tuple_LatLng_to_string(ubicacion.val)
    ELSE IF ubicacion.kind = "str" THEN Return(ubicacion)
    ELSE Return(None)

(***************************************************************************)
(* urllib.parse.quote: letters, digits and _.-~/ stay, every other         *)
(* character becomes %XX.                                                  *)
(***************************************************************************)
QuoteChar(c) ==
    CASE c = "\"" -> <<"%", "2", "2">>
      [] c = "\\" -> <<"%", "5", "C">>
      [] c = " "  -> <<"%", "2", "0">>
      [] c = ","  -> <<"%", "2", "C">>
      [] c = "\n" -> <<"%", "0", "A">>
      [] OTHER    -> <<c>>

RECURSIVE quote(_)
quote(s) == IF s = <<>> THEN <<>> ELSE QuoteChar(Head(s)) \o quote(Tail(s))

(***************************************************************************)
(* The JSON text OpenService builds from a Nominatim answer, and           *)
(* json.loads of a text of that shape.                                     *)
(***************************************************************************)
ProcHead ==
    <<"{", "\"", "p", "o", "i", "n", "t", "\"", ":", " ", "{", "\"", "c",
      "o", "o", "r", "d", "i", "n", "a", "t", "e", "s", "\"", ":", " ",
      "[">>

ProcSep == <<",", " ">>

ProcMid ==
    <<"]", "}", ",", " ", "\"", "a", "d", "d", "r", "e", "s", "s", "\"",
      ":", " ", "{", "\"", "f", "o", "r", "m", "a", "t", "t", "e", "d",
      "A", "d", "d", "r", "e", "s", "s", "\"", ":", " ", "\"">>

ProcTail == <<"\"", "}", " ", "}">>

\* '{"point": {"coordinates": [' + str(lat) + ', ' + str(lng) + ']}, "address":
\* {"formattedAddress": "' + address + '"} }'
ProcText(res) ==
    ProcHead \o str(res.latitude) \o ProcSep \o str(res.longitude)
             \o ProcMid \o res.address \o ProcTail

\* position after the literal lit at position i of s, 0 when it is not there
ParseLit(s, i, lit) ==
    IF i > 0 /\ i + Len(lit) - 1 <= Len(s) /\ SubSeq(s, i, i + Len(lit) - 1) = lit
    THEN i + Len(lit) ELSE 0

RECURSIVE ParseDigits(_, _, _)
ParseDigits(s, i, acc) ==
    IF i <= Len(s) /\ IsDigit(s[i])
    THEN ParseDigits(s, i + 1, acc * 10 + DigitVal(s[i]))
    ELSE [val |-> acc, next |-> i]

\* a JSON integer at position i: -?[0-9]+ ; next = 0 when there is none
ParseInt(s, i) ==
    IF i = 0 \/ i > Len(s) THEN [val |-> 0, next |-> 0]
    ELSE LET neg == s[i] = "-"
             j   == IF neg THEN i + 1 ELSE i
             d   == ParseDigits(s, j, 0)
         IN  IF d.next = j THEN [val |-> 0, next |-> 0]
             ELSE [val |-> IF neg THEN -d.val ELSE d.val, next |-> d.next]

\* the body of a JSON string literal from position i (after the opening
\* quote) up to the closing quote: a backslash starts an escape, a raw
\* control character is refused (strict mode); next = 0 on a decode error
RECURSIVE ScanString(_, _, _)
ScanString(s, i, acc) ==
    IF i = 0 \/ i > Len(s) THEN [val |-> <<>>, next |-> 0]
    ELSE IF s[i] = "\"" THEN [val |-> acc, next |-> i + 1]
    ELSE IF s[i] = "\n" THEN [val |-> <<>>, next |-> 0]
    ELSE IF s[i] = "\\" THEN
        IF i + 1 > Len(s) THEN [val |-> <<>>, next |-> 0]
        ELSE IF s[i + 1] \in {"\"", "\\", "/"}
             THEN ScanString(s, i + 2, Append(acc, s[i + 1]))
        ELSE IF s[i + 1] = "n" THEN ScanString(s, i + 2, Append(acc, "\n"))
        ELSE [val |-> <<>>, next |-> 0]
    ELSE ScanString(s, i + 1, Append(acc, s[i]))

NoData == [kind |-> "unset", coordinates |-> <<>>, formattedAddress |-> <<>>]

\* the dict read from a location answer:
\* {"point": {"coordinates": [lat, lng]}, "address": {"formattedAddress": a}}
LocationData(lat, lng, a) ==
    [kind |-> "dict", coordinates |-> <<lat, lng>>, formattedAddress |-> a]

json_loads(text) ==
    LET lat  == ParseInt(text, ParseLit(text, 1, ProcHead))
        lng  == ParseInt(text, ParseLit(text, lat.next, ProcSep))
        addr == ScanString(text, ParseLit(text, lng.next, ProcMid), <<>>)
        end  == ParseLit(text, addr.next, Tail(ProcTail))
    IN  IF end = Len(text) + 1
        THEN Return(LocationData(lat.val, lng.val, addr.val))
        ELSE Raise("JSONDecodeError")

(***************************************************************************)
(* Remote services.  A remote call is recorded as                          *)
(*   [api, url, path, params, arg]                                         *)
(* api: the service called; url: the REST resource; path: the value        *)
(* embedded in the URL path (None when there is none); params: the dict    *)
(* handed to urlencode; arg: the position the service method was given     *)
(* (None for a routing query).                                             *)
(* The answers of the services during one call are an oracle record        *)
(*   [nominatim, bing]                                                     *)
(***************************************************************************)
ApiKey == PyStr(<<"K">>)

NominatimCall(method, ubicacion) ==
    [api |-> method, url |-> "", path |-> None, params |-> EmptyDict,
     arg |-> ubicacion]

BingCall(url, path, params, arg) ==
    [api |-> "Bing", url |-> url, path |-> path, params |-> params, arg |-> arg]

\* answers of Nominatim: nothing found, an exception, or a Location
NomNone == [kind |-> "None", latitude |-> 0, longitude |-> 0, address |-> <<>>]

NomError == [kind |-> "error", latitude |-> 0, longitude |-> 0, address |-> <<>>]

NomLocation(lat, lng, a) ==
    [kind |-> "Location", latitude |-> lat, longitude |-> lng, address |-> a]

\* answers of a Bing REST call: the transport or the decoding fails, the
\* result set is empty, or resourceSets[0].resources[0] is there
BingError == [kind |-> "error", data |-> NoData]

BingEmpty == [kind |-> "empty", data |-> NoData]

BingResource(d) == [kind |-> "resource", data |-> d]

\* data = _json_from_url(url); return data['resourceSets'][0]['resources'][0]
FirstResource(resp) ==
    IF resp.kind = "error" THEN Raise("URLError")
    ELSE IF resp.kind = "empty" THEN Raise("IndexError")
    ELSE Return(resp.data)

\* BingService._rest_localizacion; OpenService._rest_localizacion repeats
\* the same statements for its fallback
BingService_rest_localizacion(ubicacion, kwargs, o) ==
    LET withkey == DictUpdate(kwargs, "key" :> ApiKey)
        params  == IF ubicacion.kind = "tuple"
                   THEN DictUpdate(withkey, "query" :> ubicacion)
                   ELSE withkey
        path    == IF ubicacion.kind = "str" THEN PyStr(quote(ubicacion.val))
                   ELSE None
    IN  [ret   |-> FirstResource(o.bing),
         calls |-> <<BingCall("Locations", path, params, ubicacion)>>]

\* a mutation of OpenService_rest_localizacion: when Nominatim finds
\* nothing the lookup fails without asking Bing
OpenService_rest_localizacion_nofallback(ubicacion, kwargs, o) ==
    LET method == IF ubicacion.kind = "tuple" THEN "Nominatim.reverse"
                  ELSE "Nominatim.geocode"
        first  == <<NominatimCall(method, ubicacion)>>
    IN  IF ubicacion.kind \notin {"tuple", "str"}
        THEN [ret |-> Raise("UnboundLocalError"), calls |-> <<>>]
        ELSE IF o.nominatim.kind = "error"
        THEN [ret |-> Raise("GeocoderError"), calls |-> first]
        ELSE IF o.nominatim.kind = "None"
        THEN [ret |-> Raise("IndexError"), calls |-> first]
        ELSE [ret |-> json_loads(ProcText(o.nominatim)), calls |-> first]

\* the outcome second of a request made after the calls first
After(first, second) == [ret |-> second.ret, calls |-> first \o second.calls]

\* a mutation of OpenService_rest_localizacion: Bing is asked also when
\* Nominatim raises
OpenService_rest_localizacion_onerror(ubicacion, kwargs, o) ==
    LET method == IF ubicacion.kind = "tuple" THEN "Nominatim.reverse"
                  ELSE "Nominatim.geocode"
        first  == <<NominatimCall(method, ubicacion)>>
    IN  IF ubicacion.kind \notin {"tuple", "str"}
        THEN [ret |-> Raise("UnboundLocalError"), calls |-> <<>>]
        ELSE IF o.nominatim.kind \in {"error", "None"}
        THEN After(first, BingService_rest_localizacion(ubicacion, kwargs, o))
        ELSE [ret |-> json_loads(ProcText(o.nominatim)), calls |-> first]

OpenService_rest_localizacion(ubicacion, kwargs, o) ==
    LET method == IF ubicacion.kind = "tuple" THEN "Nominatim.reverse"
                  ELSE "Nominatim.geocode"
        first  == <<NominatimCall(method, ubicacion)>>
    IN  IF ubicacion.kind \notin {"tuple", "str"}
        THEN [ret |-> Raise("UnboundLocalError"), calls |-> <<>>]
        ELSE IF o.nominatim.kind = "error"
        THEN [ret |-> Raise("GeocoderError"), calls |-> first]
        ELSE IF o.nominatim.kind = "None"
        THEN After(first, BingService_rest_localizacion(ubicacion, kwargs, o))
        ELSE [ret |-> json_loads(ProcText(o.nominatim)), calls |-> first]

(***************************************************************************)
(* Routing query.                                                          *)
(***************************************************************************)
NoRouteData ==
    [kind |-> "unset", travelDistance |-> 0, travelDurationTraffic |-> 0,
     itineraryItems |-> <<>>]

\* the part of a route answer the accessors read: travelDistance,
\* travelDurationTraffic and routeLegs[0].itineraryItems[*].instruction.text
RouteData(km, sec, items) ==
    [kind |-> "dict", travelDistance |-> km, travelDurationTraffic |-> sec,
     itineraryItems |-> items]

\* the stops in order: start, intermediate stops, end
Stops(inicio, final, via) == <<inicio>> \o via \o <<final>>

\* a mutation of WayPointKey: every stop is keyed as an anchor waypoint
WayPointKey_allanchors(n, numero_paradas) == "wayPoint." \o ToString(n)

\* the key of stop n of numero_paradas: the first and the last are
\* wayPoint.n, the others viaWayPoint.n
WayPointKey(n, numero_paradas) ==
    IF n = 1 \/ n = numero_paradas THEN "wayPoint." \o ToString(n)
    ELSE "viaWayPoint." \o ToString(n)

\* the dict viajes built from the list paradas of stop tokens
Viajes(paradas) ==
    LET numero_paradas == Len(paradas)
        keys == {WayPointKey(n, numero_paradas) : n \in 1..numero_paradas}
    IN  [k \in keys |->
            paradas[CHOOSE n \in 1..numero_paradas :
                        WayPointKey(n, numero_paradas) = k]]

\* paradas.append(wp) unless the conversion of an earlier stop has raised,
\* wp being the outcome of _posicion_a_string_url
ParadasAppend(acc, wp) ==
    [err  |-> wp.err,
     vals |-> IF wp.err = "ok" THEN Append(acc.vals, wp.val) ELSE acc.vals]

\* the list paradas: the stops converted in order by
\* _posicion_a_string_url; err is the first exception raised, which ends the
\* conversion, or "ok"
RECURSIVE Paradas(_, _)
Paradas(stops, acc) ==
    IF stops = <<>> \/ acc.err # "ok" THEN acc
    ELSE Paradas(Tail(stops), ParadasAppend(acc, _posicion_a_string_url(Head(stops))))

\* a mutation of RutaRequest: the extra parameters are applied last
RutaRequest_kwargslast(paradas, kwargs, o) ==
    IF paradas.err # "ok" THEN [ret |-> Raise(paradas.err), calls |-> <<>>]
    ELSE [ret   |-> FirstResource(o.bing),
          calls |-> <<BingCall("Routes/Driving", None,
                         DictUpdate(DictUpdate(Viajes(paradas.vals),
                                               "key" :> ApiKey),
                                    kwargs),
                         None)>>]

\* the request of _rest_ruta for the converted stops paradas
RutaRequest(paradas, kwargs, o) ==
    IF paradas.err # "ok" THEN [ret |-> Raise(paradas.err), calls |-> <<>>]
    ELSE [ret   |-> FirstResource(o.bing),
          calls |-> <<BingCall("Routes/Driving", None,
                         DictUpdate(DictUpdate(kwargs, Viajes(paradas.vals)),
                                    "key" :> ApiKey),
                         None)>>]

\* BingService._rest_ruta; OpenService._rest_ruta has the same statements
BingService_rest_ruta(inicio, final, via, kwargs, o) ==
    RutaRequest(Paradas(Stops(inicio, final, via), [err |-> "ok", vals |-> <<>>]),
                kwargs, o)

OpenService_rest_ruta(inicio, final, via, kwargs, o) ==
    BingService_rest_ruta(inicio, final, via, kwargs, o)

(***************************************************************************)
(* MapService: the service object an entity holds is an OpenService or a   *)
(* BingService.                                                            *)
(***************************************************************************)
_rest_localizacion(map_service, ubicacion, kwargs, o) ==
    IF map_service = "OpenService"
    THEN OpenService_rest_localizacion(ubicacion, kwargs, o)
    ELSE BingService_rest_localizacion(ubicacion, kwargs, o)

_rest_ruta(map_service, inicio, final, via, kwargs, o) ==
    IF map_service = "OpenService"
    THEN OpenService_rest_ruta(inicio, final, via, kwargs, o)
    ELSE BingService_rest_ruta(inicio, final, via, kwargs, o)

(***************************************************************************)
(* Localizacion.  An object is the record of its attributes; creado tells  *)
(* whether the constructor has returned it, and arg_latlng, arg_direccion  *)
(* remember the arguments the constructor was given.                       *)
(***************************************************************************)
NoLocalizacion ==
    [creado |-> FALSE, _data_procesada |-> FALSE, _imagen_procesada |-> FALSE,
     _latlng_recibido |-> FALSE, _direccion_recibida |-> FALSE,
     _latlng |-> None, _direccion |-> None, data |-> NoData,
     _imagen |-> None, _kwargs |-> EmptyDict, _map_service |-> "",
     arg_latlng |-> None, arg_direccion |-> None]

Localizacion__init__(map_service, latlng, direccion, kwargs) ==
    LET new == [NoLocalizacion EXCEPT !.creado = TRUE,
                                      !._kwargs = kwargs,
                                      !._map_service = map_service,
                                      !.arg_latlng = latlng,
                                      !.arg_direccion = direccion]
    IN  IF latlng # None /\ direccion # None
        THEN [ret  |-> Return(None),
              self |-> [new EXCEPT !._latlng_recibido = TRUE,
                                   !._direccion_recibida = TRUE]]
        ELSE IF latlng # None
        THEN IF latlng.kind = "tuple"
             THEN [ret  |-> Return(None),
                   self |-> [new EXCEPT !._latlng = latlng,
                                        !._latlng_recibido = TRUE]]
             ELSE [ret  |-> Raise("La latitud y longitud deben ser una tupla o lista"),
                   self |-> NoLocalizacion]
        ELSE IF direccion # None
        THEN IF direccion.kind = "str"
             THEN [ret  |-> Return(None),
                   self |-> [new EXCEPT !._direccion = direccion,
                                        !._direccion_recibida = TRUE]]
             ELSE [ret  |-> Raise("La direccion debe ser un String"),
                   self |-> NoLocalizacion]
        ELSE [ret  |-> Raise("Debe especificar una latitud y una longitud o una direccion"),
              self |-> NoLocalizacion]

\* the two try blocks of procesar, r being the outcome of the REST call: on
\* success self.data and self._data_procesada are assigned; any exception
\* becomes ValueError('Error, al procesar REST')
ProcesarREST(self, r) ==
    IF r.ret.err = "ok"
    THEN [self  |-> [self EXCEPT !.data = r.ret.val, !._data_procesada = TRUE],
          ret   |-> Return(r.ret.val),
          calls |-> r.calls]
    ELSE [self  |-> self,
          ret   |-> Raise("Error, al procesar REST"),
          calls |-> r.calls]

\* a mutation of Localizacion_procesar: no guard against a second processing
Localizacion_procesar_singuarda(self, o) ==
    IF self._latlng_recibido /\ self._direccion_recibida
    THEN [self |-> self, ret |-> Raise("No es necesario procesar la ubicacion"),
          calls |-> <<>>]
    ELSE IF self._direccion # None
    THEN ProcesarREST(self, _rest_localizacion(self._map_service, self._direccion,
                                               self._kwargs, o))
    ELSE IF self._latlng # None
    THEN ProcesarREST(self, _rest_localizacion(self._map_service, self._latlng,
                                               self._kwargs, o))
    ELSE [self |-> self,
          ret |-> Raise("Error, no hay datos de ubicacion para procesar"),
          calls |-> <<>>]

Localizacion_procesar(self, o) ==
    IF self._data_procesada
    THEN [self |-> self, ret |-> Raise("La localizacion ya ha sido procesada"),
          calls |-> <<>>]
    ELSE IF self._latlng_recibido /\ self._direccion_recibida
    THEN [self |-> self, ret |-> Raise("No es necesario procesar la ubicacion"),
          calls |-> <<>>]
    ELSE IF self._direccion # None
    THEN ProcesarREST(self, _rest_localizacion(self._map_service, self._direccion,
                                               self._kwargs, o))
    ELSE IF self._latlng # None
    THEN ProcesarREST(self, _rest_localizacion(self._map_service, self._latlng,
                                               self._kwargs, o))
    ELSE [self |-> self,
          ret |-> Raise("Error, no hay datos de ubicacion para procesar"),
          calls |-> <<>>]

\* if not self._data_procesada: self.procesar()
ProcesarSiHaceFalta(self, o) ==
    IF ~self._data_procesada THEN Localizacion_procesar(self, o)
    ELSE [self |-> self, ret |-> Return(self.data), calls |-> <<>>]

ReadCoordinates(data) == PyTuple(data.coordinates)

ReadFormattedAddress(data) == PyStr(data.formattedAddress)

PyInt(n) == [kind |-> "int", val |-> n]

\* the quotient num / den of a true division
PyQuotient(num, den) == [kind |-> "quotient", val |-> <<num, den>>]

PyList(s) == [kind |-> "list", val |-> s]

ReadTravelDistance(data) == PyInt(data.travelDistance)

\* the metre accessor without its factor: the kilometre figure unchanged
ReadTravelDistanceMetros_nofactor(data) == PyInt(data.travelDistance)

ReadTravelDistanceMetros(data) == PyInt(data.travelDistance * 1000)

ReadTravelDurationTraffic(data) == PyInt(data.travelDurationTraffic)

ReadTravelDurationMinutos(data) == PyQuotient(data.travelDurationTraffic, 60)

ReadInstructions(data) == PyList(data.itineraryItems)

\* what accessor op reads from the payload data
ReadOf(op, data) ==
    CASE op = "obtener_latlng"                 -> ReadCoordinates(data)
      [] op = "obtener_direccion"              -> ReadFormattedAddress(data)
      [] op = "distancia_ruta_bing_kilometros" -> ReadTravelDistance(data)
      [] op = "distancia_ruta_bing_metros"     -> ReadTravelDistanceMetros(data)
      [] op = "tiempo_de_viaje_segundos"       -> ReadTravelDurationTraffic(data)
      [] op = "tiempo_de_viaje_minutos"        -> ReadTravelDurationMinutos(data)
      [] op = "indicaciones_ruta"              -> ReadInstructions(data)

\* the return statement of accessor op after p, the outcome of the
\* processing: unless p has raised, what op reads from self.data
Devolver(op, p) ==
    IF p.ret.err = "ok" THEN [p EXCEPT !.ret = Return(ReadOf(op, p.self.data))]
    ELSE p

\* a mutation of obtener_latlng: the received coordinate is not used
obtener_latlng_always(self, o) ==
    Devolver("obtener_latlng", ProcesarSiHaceFalta(self, o))

obtener_latlng(self, o) ==
    IF self._latlng_recibido
    THEN [self |-> self, ret |-> Return(self._latlng), calls |-> <<>>]
    ELSE Devolver("obtener_latlng", ProcesarSiHaceFalta(self, o))

obtener_direccion(self, o) ==
    IF self._direccion_recibida
    THEN [self |-> self, ret |-> Return(self._direccion), calls |-> <<>>]
    ELSE Devolver("obtener_direccion", ProcesarSiHaceFalta(self, o))

(***************************************************************************)
(* Ruta.  _inicio, _final and the elements of _paradas are references to   *)
(* Localizacion objects: identifiers into the heap locs.  The calls a      *)
(* Ruta method returns are tagged with the entity that issued them: the    *)
(* identifier of a Localizacion, or RutaId for the route itself.           *)
(***************************************************************************)
RutaId == 0

Tagged(who, calls) == [i \in 1..Len(calls) |-> [who |-> who, call |-> calls[i]]]

NoRuta ==
    [creado |-> FALSE, _data_procesada |-> FALSE, _imagen_procesada |-> FALSE,
     _inicio |-> 0, _final |-> 0, _paradas |-> <<>>, _kwargs |-> EmptyDict,
     _map_service |-> "", data |-> NoRouteData, _imagen |-> None,
     _translator |-> FALSE]

\* inicio, final: a value, of which those in localizaciones are
\* (identifiers of) Localizacion objects; paradas: a list of identifiers
Ruta__init__(map_service, inicio, final, paradas, kwargs, localizaciones) ==
    IF inicio \notin localizaciones
    THEN [ret |-> Raise("El inicio debe ser una localizacion"), self |-> NoRuta]
    ELSE IF final \notin localizaciones
    THEN [ret |-> Raise("El final debe ser una localizacion"), self |-> NoRuta]
    ELSE [ret  |-> Return(None),
          self |-> [NoRuta EXCEPT !.creado = TRUE, !._inicio = inicio,
                                  !._final = final, !._paradas = paradas,
                                  !._kwargs = kwargs,
                                  !._map_service = map_service]]

\* a mutation of ProcExtremo: the endpoint is processed when it has not been
ProcExtremo_forced(loc, o, nombre) ==
    Devolver("obtener_latlng", ProcesarSiHaceFalta(loc, o))

\* proc_inicio / proc_final: the outcome of obtener_latlng when the
\* coordinate was received, else of obtener_direccion when the address was,
\* else the ValueError of an endpoint that has neither
ProcExtremo(loc, o, nombre) ==
    IF loc._latlng_recibido THEN obtener_latlng(loc, o)
    ELSE IF loc._direccion_recibida THEN obtener_direccion(loc, o)
    ELSE [self |-> loc, calls |-> <<>>,
          ret |-> Raise("La localizacion de " \o nombre \o " no ha sido procesada")]

\* the comprehension after r, the outcome of obtener_latlng of stop l
ParadasLatlngAppend(acc, l, r) ==
    [locs  |-> [acc.locs EXCEPT ![l] = r.self],
     vals  |-> IF r.ret.err = "ok" THEN Append(acc.vals, r.ret.val) ELSE acc.vals,
     calls |-> acc.calls \o Tagged(l, r.calls),
     err   |-> r.ret.err]

\* [loc.obtener_latlng() for loc in self._paradas], from element i on: acc
\* carries the heap, the values read so far, the calls issued and the first
\* exception, which ends the comprehension
RECURSIVE ParadasLatlng(_, _, _, _)
ParadasLatlng(paradas, i, acc, ov) ==
    IF i > Len(paradas) \/ acc.err # "ok" THEN acc
    ELSE ParadasLatlng(paradas, i + 1,
             ParadasLatlngAppend(acc, paradas[i],
                 obtener_latlng(acc.locs[paradas[i]], ov[paradas[i]])),
             ov)

\* the end of the try block, r being the outcome of _rest_ruta: self.data
\* and self._data_procesada are assigned on success, any exception becomes
\* ValueError('Error, al procesar REST')
RutaGuardar(self, vias, r) ==
    IF r.ret.err # "ok"
    THEN [self |-> self, locs |-> vias.locs,
          calls |-> vias.calls \o Tagged(RutaId, r.calls),
          ret |-> Raise("Error, al procesar REST")]
    ELSE [self |-> [self EXCEPT !.data = r.ret.val, !._data_procesada = TRUE],
          locs |-> vias.locs,
          calls |-> vias.calls \o Tagged(RutaId, r.calls),
          ret |-> Return(r.ret.val)]

\* a mutation of RutaREST: the routing query is sent with the coordinates
\* read before an intermediate stop failed
RutaREST_ignora(self, proc_inicio, proc_final, vias, o) ==
    RutaGuardar(self, vias,
        _rest_ruta(self._map_service, proc_inicio, proc_final, vias.vals,
                   self._kwargs, o))

\* the try block, vias being the outcome of the comprehension over the
\* intermediate stops
RutaREST(self, proc_inicio, proc_final, vias, o) ==
    IF vias.err # "ok"
    THEN [self |-> self, locs |-> vias.locs, calls |-> vias.calls,
          ret |-> Raise("Error, al procesar REST")]
    ELSE RutaGuardar(self, vias,
             _rest_ruta(self._map_service, proc_inicio, proc_final, vias.vals,
                        self._kwargs, o))

\* the outcome of a method of the route that raises err after the steps acc
RutaRaise(self, acc, err) ==
    [self |-> self, locs |-> acc.locs, calls |-> acc.calls, ret |-> Raise(err)]

\* procesar from the point where proc_inicio and proc_final are known:
\* acc.vals holds them, or acc.err the exception raised for one of them
RutaVias(self, acc, ov, o) ==
    IF acc.err # "ok" THEN RutaRaise(self, acc, acc.err)
    ELSE RutaREST(self, acc.vals[1], acc.vals[2],
             ParadasLatlng(self._paradas, 1,
                 [locs |-> acc.locs, vals |-> <<>>, calls |-> acc.calls,
                  err |-> "ok"], ov),
             o)

\* procesar from the point where proc_inicio is known
RutaFinal(self, acc, ov, o) ==
    IF acc.err # "ok" THEN RutaRaise(self, acc, acc.err)
    ELSE RutaVias(self,
             ParadasLatlngAppend(acc, self._final,
                 ProcExtremo(acc.locs[self._final], ov[self._final], "final")),
             ov, o)

\* ov[l]: the answers to the geocoding of Localizacion l, o: the answers to
\* the routing query
Ruta_procesar(self, locs, ov, o) ==
    IF self._data_procesada
    THEN [self |-> self, locs |-> locs, calls |-> <<>>,
          ret |-> Raise("La localizacion ya ha sido procesada")]
    ELSE RutaFinal(self,
             ParadasLatlngAppend(
                 [locs |-> locs, vals |-> <<>>, calls |-> <<>>, err |-> "ok"],
                 self._inicio,
                 ProcExtremo(locs[self._inicio], ov[self._inicio], "inicio")),
             ov, o)

\* if not self._data_procesada: self.procesar()
RutaProcesarSiHaceFalta(self, locs, ov, o) ==
    IF ~self._data_procesada THEN Ruta_procesar(self, locs, ov, o)
    ELSE [self |-> self, locs |-> locs, calls |-> <<>>, ret |-> Return(self.data)]

distancia_ruta_bing_kilometros(self, locs, ov, o) ==
    Devolver("distancia_ruta_bing_kilometros",
             RutaProcesarSiHaceFalta(self, locs, ov, o))

distancia_ruta_bing_metros(self, locs, ov, o) ==
    Devolver("distancia_ruta_bing_metros", RutaProcesarSiHaceFalta(self, locs, ov, o))

tiempo_de_viaje_segundos(self, locs, ov, o) ==
    Devolver("tiempo_de_viaje_segundos", RutaProcesarSiHaceFalta(self, locs, ov, o))

tiempo_de_viaje_minutos(self, locs, ov, o) ==
    Devolver("tiempo_de_viaje_minutos", RutaProcesarSiHaceFalta(self, locs, ov, o))

\* indicaciones_ruta(traducir=False)
indicaciones_ruta(self, locs, ov, o) ==
    Devolver("indicaciones_ruta", RutaProcesarSiHaceFalta(self, locs, ov, o))

(***************************************************************************)
(* Inputs and answers the model draws from.                                *)
(***************************************************************************)
\* the Localizacion objects of the program
LocIds == {1, 2}

Entities == LocIds \cup {RutaId}

\* coordinates and addresses given to the constructors
LatLngs == {PyTuple(<<4, -74>>)}

Direcciones == {PyStr(<<"B">>)}

\* coordinates outside the ranges of latitude and of longitude
BadLatLngs == {PyTuple(<<91, 0>>), PyTuple(<<0, -181>>)}

\* values of the wrong type for a coordinate / for an address
NotLatLngs == {PyStr(<<"B">>)}

NotDirecciones == {PyTuple(<<4, -74>>)}

\* extra parameters of a Ruta
RutaKwargs == {EmptyDict, "wayPoint.2" :> PyStr(<<"X">>)}

\* extra parameters of a Localizacion
LocKwargs == {EmptyDict, "key" :> PyStr(<<"U">>)}

\* the texts of at most n characters of the set chars, none empty
RECURSIVE Texts(_, _)
Texts(chars, n) ==
    IF n = 0 THEN {}
    ELSE LET shorter == Texts(chars, n - 1)
         IN  {<<c>> : c \in chars} \cup shorter
             \cup {Append(t, c) : t \in shorter, c \in chars}

\* the addresses a geocoder may answer with: letters, the double quote and
\* the backslash
AddrChars == {"a", "n", "\"", "\\"}

GeoAddresses == Texts(AddrChars, MaxAddrLen)

GeoCoords == {<<10, 10>>, <<4, -74>>}

NoOracle == [nominatim |-> NomNone, bing |-> BingError]

\* the answers that decide a geocoding through the service: for an
\* OpenService the answer of Bing counts only when Nominatim finds nothing
LocOracles(map_service, coords, addresses) ==
    LET found == {LocationData(c[1], c[2], a) : c \in coords, a \in addresses}
        bings == {BingError, BingEmpty} \cup {BingResource(d) : d \in found}
        noms  == {NomError} \cup
                 {NomLocation(c[1], c[2], a) : c \in coords, a \in addresses}
    IN  IF map_service = "OpenService"
        THEN {[nominatim |-> n, bing |-> BingError] : n \in noms} \cup
             {[nominatim |-> NomNone, bing |-> b] : b \in bings}
        ELSE {[nominatim |-> NomNone, bing |-> b] : b \in bings}

RutaError == [kind |-> "error", data |-> NoRouteData]

RutaEmpty == [kind |-> "empty", data |-> NoRouteData]

RutaOracles ==
    {[nominatim |-> NomNone, bing |-> b] :
        b \in {RutaError, RutaEmpty,
               BingResource(RouteData(15, 1200, <<"L">>)),
               BingResource(RouteData(7, 600, <<"R", "S">>))}}

\* the lists of at most n intermediate stops
RECURSIVE ParadasHasta(_)
ParadasHasta(n) ==
    IF n = 0 THEN {<<>>}
    ELSE LET shorter == ParadasHasta(n - 1)
         IN  shorter \cup {Append(p, l) : p \in shorter, l \in LocIds}

(***************************************************************************)
(* State.                                                                  *)
(*   servicio  the map service object the entities are given               *)
(*   locs      the Localizacion objects                                    *)
(*   ruta      the Ruta object                                             *)
(*   hist      per entity, what has happened to it so far: procesar() was  *)
(*             entered (intentado), a resolution attempt failed after its  *)
(*             call was issued (fallo), its data is processed (exito), the *)
(*             image its first successful obtener_imagen returned (imagen) *)
(*             and the arguments of that call (imagen_arg)                 *)
(*   last      the call made last: method, its arguments where the model   *)
(*             draws them (arg), entity, returned value or exception, hist *)
(*             of the entity before the call, and for a call on a          *)
(*             Localizacion the answers the services gave to it            *)
(*   trace     the remote calls the last call issued, in order             *)
(*   hilos     the callers that run procesar() of one Localizacion at the  *)
(*             same time, each with its position in the method, what it    *)
(*             holds locally, and what it returned                         *)
(***************************************************************************)
VARIABLES servicio, locs, ruta, hist, last, trace, hilos

vars == <<servicio, locs, ruta, hist, last, trace, hilos>>

NoHist ==
    [intentado |-> FALSE, fallo |-> FALSE, exito |-> FALSE, imagen |-> None,
     imagen_arg |-> None]

\* answers under which every geocoding and every routing query succeeds
OkOracle ==
    [nominatim |-> NomLocation(0, 0, <<"a">>),
     bing      |-> BingResource(LocationData(0, 0, <<"a">>))]

OkRutaOracle ==
    [nominatim |-> NomNone, bing |-> BingResource(RouteData(0, 0, <<>>))]

Issued(e, tr) == \E i \in 1..Len(tr) : tr[i].who = e

\* the concurrent callers of procesar()
Hilos == {1, 2}

\* a caller that has not entered procesar(): pc is its position, antes the
\* object as it saw it on entry, o the answers its remote call got, val the
\* value its remote call returned, ret what procesar() returned to it; solo
\* records that no other caller was inside procesar() when it entered
NoHilo ==
    [pc |-> "fuera", solo |-> TRUE, antes |-> NoLocalizacion, o |-> NoOracle,
     val |-> NoData, ret |-> Return(None)]

Init ==
    /\ servicio \in {"OpenService", "BingService"}
    /\ hilos = [t \in Hilos |-> NoHilo]
    /\ locs = [l \in LocIds |-> NoLocalizacion]
    /\ ruta = NoRuta
    /\ hist = [e \in Entities |-> NoHist]
    /\ last = [op |-> "", arg |-> None, who |-> RutaId, ret |-> Return(None),
               antes |-> NoHist,
               ans |-> [e \in Entities |-> NoOracle]]
    /\ trace = <<>>

\* the state after a call of method op with arguments arg on entity who
\* that left the heap locs2 and the route ruta2, returned ret and issued
\* the calls tr, the services answering ans
CalledWith(op, arg, who, locs2, ruta2, ret, tr, ans) ==
    LET procesada(e) == IF e = RutaId THEN ruta2._data_procesada
                        ELSE locs2[e]._data_procesada
    IN  /\ locs' = locs2
        /\ ruta' = ruta2
        /\ trace' = tr
        /\ hist' = [e \in Entities |->
               [intentado |-> hist[e].intentado \/ Issued(e, tr)
                                 \/ (op = "procesar" /\ who = e),
                fallo     |-> hist[e].fallo \/ (Issued(e, tr) /\ ~procesada(e)),
                exito     |-> procesada(e),
                imagen    |-> IF hist[e].imagen = None /\ who = e
                                    /\ op = "obtener_imagen" /\ ret.err = "ok"
                              THEN ret.val ELSE hist[e].imagen,
                imagen_arg |-> IF hist[e].imagen = None /\ who = e
                                    /\ op = "obtener_imagen" /\ ret.err = "ok"
                               THEN arg ELSE hist[e].imagen_arg]]
        /\ last' = [op |-> op, arg |-> arg, who |-> who, ret |-> ret,
                    antes |-> hist[who],
                    ans |-> [e \in Entities |->
                                IF Issued(e, tr) THEN ans[e] ELSE NoOracle]]
        /\ UNCHANGED <<servicio, hilos>>

Called(op, who, locs2, ruta2, ret, tr, ans) ==
    CalledWith(op, None, who, locs2, ruta2, ret, tr, ans)

(***************************************************************************)
(* Calls on a Localizacion.                                                *)
(***************************************************************************)
NewLocalizacion(l, latlngs, direcciones, kwargs) ==
    /\ ~locs[l].creado
    /\ \E latlng \in latlngs \cup {None}, direccion \in direcciones \cup {None},
          kw \in kwargs :
          \E r \in {Localizacion__init__(servicio, latlng, direccion, kw)} :
              Called("__init__", l, [locs EXCEPT ![l] = r.self], ruta, r.ret,
                     <<>>, [e \in Entities |-> NoOracle])

\* whether method op of self reaches the REST call
Consulta(op, self) ==
    /\ ~self._data_procesada
    /\ ~(self._latlng_recibido /\ self._direccion_recibida)
    /\ ~(op = "obtener_latlng" /\ self._latlng_recibido)
    /\ ~(op = "obtener_direccion" /\ self._direccion_recibida)

\* the answers the services may give during method op of self
LocAnswers(op, self, oracles) == IF Consulta(op, self) THEN oracles ELSE {NoOracle}

\* the state after method op of Localizacion l has ended as r, the
\* services answering o
LocDone(op, l, o, r) ==
    Called(op, l, [locs EXCEPT ![l] = r.self], ruta, r.ret, Tagged(l, r.calls),
           [e \in Entities |-> o])

LocProcesar(l, oracles) ==
    /\ locs[l].creado
    /\ \E o \in LocAnswers("procesar", locs[l], oracles) :
          LocDone("procesar", l, o, Localizacion_procesar(locs[l], o))

LocObtenerLatlng(l, oracles) ==
    /\ locs[l].creado
    /\ \E o \in LocAnswers("obtener_latlng", locs[l], oracles) :
          LocDone("obtener_latlng", l, o, obtener_latlng(locs[l], o))

LocObtenerDireccion(l, oracles) ==
    /\ locs[l].creado
    /\ \E o \in LocAnswers("obtener_direccion", locs[l], oracles) :
          LocDone("obtener_direccion", l, o, obtener_direccion(locs[l], o))

(***************************************************************************)
(* Calls on the Ruta.                                                      *)
(***************************************************************************)
\* Ruta(servicio, 1, 2, paradas, **kw) for a list of stops of listas and
\* keyword arguments of kwargs
NewRutaCon(listas, kwargs) ==
    /\ ~ruta.creado
    /\ \E inicio \in LocIds, final \in LocIds, paradas \in listas, kw \in kwargs :
          /\ inicio = 1 /\ final = 2
          /\ \A l \in {inicio, final} \cup {paradas[i] : i \in 1..Len(paradas)} :
                locs[l].creado
          /\ \E r \in {Ruta__init__(servicio, inicio, final, paradas, kw, LocIds)} :
                 Called("__init__", RutaId, locs, r.self, r.ret, <<>>,
                        [e \in Entities |-> NoOracle])

NewRuta == NewRutaCon(ParadasHasta(MaxVias), RutaKwargs)

\* the answers the services may give during a method of the route: ov[l]
\* to the geocoding of intermediate stop l, where it has to be geocoded,
\* and o to the routing query
RutaAnswers(oracles) ==
    LET asks == {l \in LocIds :
                    /\ ~ruta._data_procesada
                    /\ \E i \in 1..Len(ruta._paradas) : ruta._paradas[i] = l
                    /\ Consulta("obtener_latlng", locs[l])}
    IN  {[ov |-> [l \in LocIds |-> IF l \in asks THEN ask[l] ELSE NoOracle],
          o  |-> o] :
            ask \in [asks -> oracles],
            o \in IF ruta._data_procesada THEN {NoOracle} ELSE RutaOracles}

\* the state after method op of the route has ended as r
RutaDone(op, r) ==
    Called(op, RutaId, r.locs, r.self, r.ret, r.calls,
           [e \in Entities |-> NoOracle])

RutaProcesar(oracles) ==
    /\ ruta.creado
    /\ \E a \in RutaAnswers(oracles) :
          RutaDone("procesar", Ruta_procesar(ruta, locs, a.ov, a.o))

RutaKilometros(oracles) ==
    /\ ruta.creado
    /\ \E a \in RutaAnswers(oracles) :
          RutaDone("distancia_ruta_bing_kilometros",
                   distancia_ruta_bing_kilometros(ruta, locs, a.ov, a.o))

RutaMetros(oracles) ==
    /\ ruta.creado
    /\ \E a \in RutaAnswers(oracles) :
          RutaDone("distancia_ruta_bing_metros",
                   distancia_ruta_bing_metros(ruta, locs, a.ov, a.o))

RutaSegundos(oracles) ==
    /\ ruta.creado
    /\ \E a \in RutaAnswers(oracles) :
          RutaDone("tiempo_de_viaje_segundos",
                   tiempo_de_viaje_segundos(ruta, locs, a.ov, a.o))

RutaMinutos(oracles) ==
    /\ ruta.creado
    /\ \E a \in RutaAnswers(oracles) :
          RutaDone("tiempo_de_viaje_minutos",
                   tiempo_de_viaje_minutos(ruta, locs, a.ov, a.o))

RutaIndicaciones(oracles) ==
    /\ ruta.creado
    /\ \E a \in RutaAnswers(oracles) :
          RutaDone("indicaciones_ruta", indicaciones_ruta(ruta, locs, a.ov, a.o))

(***************************************************************************)
(* Specifications.                                                         *)
(*   Spec     two Localizacion objects and a Ruta over them, all holding   *)
(*            an OpenService; the geocoders answer with one coordinate     *)
(*            and one address                                              *)
(*   SpecLoc  one Localizacion, constructed from well and wrongly typed    *)
(*            arguments and from coordinates out of range; the geocoders   *)
(*            answer with every address of GeoAddresses                    *)
(***************************************************************************)
SmallOracles == LocOracles(servicio, {<<10, 10>>}, {<<"a">>})

Next ==
    \/ \E l \in LocIds : NewLocalizacion(l, LatLngs, Direcciones, {EmptyDict})
    \/ \E l \in LocIds : LocObtenerLatlng(l, SmallOracles)
    \/ NewRuta
    \/ RutaProcesar(SmallOracles)
    \/ RutaKilometros(SmallOracles)
    \/ RutaMetros(SmallOracles)
    \/ RutaSegundos(SmallOracles)
    \/ RutaMinutos(SmallOracles)
    \/ RutaIndicaciones(SmallOracles)

InitOpen == Init /\ servicio = "OpenService"

Spec == InitOpen /\ [][Next]_vars

AllOracles == LocOracles(servicio, GeoCoords, GeoAddresses)

NextLoc ==
    \/ NewLocalizacion(1, LatLngs \cup BadLatLngs \cup NotLatLngs,
                       Direcciones \cup NotDirecciones, LocKwargs)
    \/ LocProcesar(1, AllOracles)
    \/ LocObtenerLatlng(1, AllOracles)
    \/ LocObtenerDireccion(1, AllOracles)

SpecLoc == Init /\ [][NextLoc]_vars

(***************************************************************************)
(* Vocabulary of the properties.                                           *)
(***************************************************************************)
LocOps == {"procesar", "obtener_latlng", "obtener_direccion"}

RutaAccessors ==
    {"distancia_ruta_bing_kilometros", "distancia_ruta_bing_metros",
     "tiempo_de_viaje_segundos", "tiempo_de_viaje_minutos", "indicaciones_ruta"}

\* the error kinds of the specification the exceptions of the code stand for
ErrorKind(err) ==
    CASE err = "La localizacion ya ha sido procesada"  -> "AlreadyResolved"
      [] err = "No es necesario procesar la ubicacion" -> "AlreadyResolved"
      [] err = "Error, al procesar REST"               -> "ResolutionFailed"
      [] err = "Latitud invalida"                      -> "InvalidPosition"
      [] err = "Longitud invalida"                     -> "InvalidPosition"
      [] err = "La velocidad debe ser mayor a cero."   -> "InvalidSpeed"
      [] err = "TranslatorError"                       -> "TranslationFailed"
      [] err = "La localizacion de inicio no ha sido procesada" ->
            "DependencyUnresolved"
      [] err = "La localizacion de final no ha sido procesada" ->
            "DependencyUnresolved"
      [] err = "ok"                                    -> "none"
      [] OTHER                                         -> "InvalidArgument"

\* the last call was method op on entity e
LastWas(e, op) == last.who = e /\ last.op = op

\* the remote calls of the last call that went to Nominatim, to Bing
NominatimCalls == {i \in 1..Len(trace) : trace[i].call.api # "Bing"}

BingCalls == {i \in 1..Len(trace) : trace[i].call.api = "Bing"}

\* the routing queries the last call sent
RouteQueries == {i \in BingCalls : trace[i].call.url = "Routes/Driving"}

\* the Bing location requests the last call sent
LocationQueries == {i \in BingCalls : trace[i].call.url = "Locations"}

\* the invocations of the service's location lookup in the last call: an
\* OpenService starts each with a Nominatim call, a BingService with the
\* Bing request
Resoluciones(l) ==
    IF locs[l]._map_service = "OpenService"
    THEN {i \in NominatimCalls : trace[i].who = l}
    ELSE {i \in BingCalls : trace[i].who = l}

CoordOnly(l) ==
    locs[l].creado /\ locs[l].arg_latlng # None /\ locs[l].arg_direccion = None

AddrOnly(l) ==
    locs[l].creado /\ locs[l].arg_latlng = None /\ locs[l].arg_direccion # None

BothGiven(l) ==
    /\ locs[l].creado
    /\ locs[l].arg_latlng.kind = "tuple"
    /\ locs[l].arg_direccion.kind = "str"

(***************************************************************************)
(* Resolution lifecycle of an entity.                                      *)
(***************************************************************************)
\* C1: an explicit resolve (procesar) on an entity succeeds at most once:
\* a procesar() on an entity on which procesar() was entered before, by a
\* direct call or through an accessor, fails with AlreadyResolved and
\* contacts no provider.
C1_SecondResolveFails ==
    \A e \in Entities :
        (LastWas(e, "procesar") /\ last.antes.intentado)
            => /\ ErrorKind(last.ret.err) = "AlreadyResolved"
               /\ trace = <<>>

\* C2: an entity issues at most one provider resolution attempt in its
\* lifetime: once an attempt of the entity has failed or succeeded, no
\* later call on it sends a request for it, so a failed entity stays failed
\* and is never retried.
C2_OneAttemptPerEntity ==
    \A e \in Entities :
        (last.who = e /\ last.op # "__init__"
            /\ (last.antes.fallo \/ last.antes.exito))
            => ~Issued(e, trace)

(***************************************************************************)
(* The composite resolver of an OpenService.                               *)
(***************************************************************************)
\* C3: when the geocoding of a Location through an OpenService gets a
\* result from the primary geocoder (Nominatim), that result becomes the
\* Location's payload - its coordinate and its address as answered - and
\* the fallback geocoder (Bing) is not asked.
C3_PrimaryResultKept ==
    \A l \in LocIds :
        (last.who = l /\ last.op \in LocOps /\ Issued(l, trace)
            /\ locs[l]._map_service = "OpenService"
            /\ last.ans[l].nominatim.kind = "Location")
            => LET n == last.ans[l].nominatim
               IN  /\ last.ret.err = "ok"
                   /\ locs[l]._data_procesada
                   /\ locs[l].data = LocationData(n.latitude, n.longitude, n.address)
                   /\ BingCalls = {}

\* C4: when the primary geocoder finds nothing and the fallback answers
\* with a resource, the primary is asked first and the fallback second,
\* the resolution succeeds, the payload is the fallback's resource, and
\* obtener_latlng of the address-only Location returns the coordinate of
\* that resource.
C4_FallbackAfterEmptyPrimary ==
    \A l \in LocIds :
        (last.who = l /\ last.op \in LocOps /\ Issued(l, trace)
            /\ locs[l]._map_service = "OpenService"
            /\ last.ans[l].nominatim.kind = "None"
            /\ last.ans[l].bing.kind = "resource")
            => /\ Len(trace) = 2
               /\ NominatimCalls = {1}
               /\ LocationQueries = {2}
               /\ last.ret.err = "ok"
               /\ locs[l]._data_procesada
               /\ locs[l].data = last.ans[l].bing.data
               /\ (last.op = "obtener_latlng"
                     => last.ret.val = PyTuple(last.ans[l].bing.data.coordinates))

\* C4 happens: obtener_latlng of an address-only Location, Nominatim found
\* nothing, and the coordinate returned is the one Bing answered
C4_Witness ==
    /\ LastWas(1, "obtener_latlng")
    /\ AddrOnly(1)
    /\ locs[1]._map_service = "OpenService"
    /\ last.ans[1].nominatim.kind = "None"
    /\ last.ans[1].bing.kind = "resource"
    /\ Len(trace) = 2
    /\ last.ret = Return(PyTuple(<<4, -74>>))

(***************************************************************************)
(* Accessors.                                                              *)
(***************************************************************************)
\* C5: over the calls of the five route accessors on a Ruta the routing
\* service is asked at most once - an accessor called after an attempt of
\* the route has failed or succeeded sends no routing query - and an
\* accessor that returns returns the value read from the cached payload.
C5_RouteMemoized ==
    \A op \in RutaAccessors :
        LastWas(RutaId, op) =>
            /\ (last.antes.fallo \/ last.antes.exito) => ~Issued(RutaId, trace)
            /\ last.ret.err = "ok" =>
                  /\ ruta._data_procesada
                  /\ last.ret.val = ReadOf(op, ruta.data)

\* C6: for a Localizacion constructed with both a coordinate and an
\* address, obtener_latlng returns the coordinate given, obtener_direccion
\* returns the address given, and neither ever asks a service.
C6_BothGivenReturned ==
    \A l \in LocIds :
        BothGiven(l) =>
            /\ LastWas(l, "obtener_latlng") =>
                  last.ret = Return(locs[l].arg_latlng) /\ trace = <<>>
            /\ LastWas(l, "obtener_direccion") =>
                  last.ret = Return(locs[l].arg_direccion) /\ trace = <<>>

\* C7: a Localizacion constructed with only a coordinate returns it from
\* obtener_latlng without a remote call in every state; its first
\* obtener_direccion runs exactly one resolution, a reverse geocoding of
\* the coordinate, and an obtener_direccion after a success runs none.
\* Symmetrically a Localizacion constructed with only an address returns
\* it from obtener_direccion without a call, its first obtener_latlng runs
\* exactly one resolution of the address, and later ones after a success
\* run none.
C7_OneSidedAccessors ==
    \A l \in LocIds :
        LET known(op, arg) ==
                LastWas(l, op) => last.ret = Return(arg) /\ trace = <<>>
            other(op, arg) ==
                LastWas(l, op) =>
                    /\ ~last.antes.intentado =>
                          /\ Cardinality(Resoluciones(l)) = 1
                          /\ trace[1].call.arg = arg
                    /\ last.antes.exito =>
                          trace = <<>> /\ last.ret.err = "ok"
        IN  /\ CoordOnly(l) =>
                /\ known("obtener_latlng", locs[l].arg_latlng)
                /\ other("obtener_direccion", locs[l].arg_latlng)
            /\ AddrOnly(l) =>
                /\ known("obtener_direccion", locs[l].arg_direccion)
                /\ other("obtener_latlng", locs[l].arg_direccion)

\* C7 happens: a coordinate-only Localizacion whose address was resolved
\* by an earlier call answers obtener_direccion again, without a call
C7_Witness ==
    /\ CoordOnly(1)
    /\ LastWas(1, "obtener_direccion")
    /\ last.antes.exito
    /\ last.ret.err = "ok"
    /\ trace = <<>>

(***************************************************************************)
(* Requests.                                                               *)
(***************************************************************************)
\* the keys wayPoint.n and viaWayPoint.n a query of the model can carry
WaypointKeyUniverse ==
    {"wayPoint." \o ToString(n) : n \in 0..(MaxVias + 3)} \cup
    {"viaWayPoint." \o ToString(n) : n \in 0..(MaxVias + 3)}

WaypointKeysOf(params) == DOMAIN params \cap WaypointKeyUniverse

\* the waypoint keys of a route with m intermediate stops
ExpectedKeys(m) ==
    {"wayPoint.1", "wayPoint." \o ToString(m + 2)} \cup
    {"viaWayPoint." \o ToString(k) : k \in 2..(m + 1)}

\* C8 as stated: the waypoint keys of a routing query of a route with m
\* intermediate stops are exactly wayPoint.1, viaWayPoint.2 ..
\* viaWayPoint.(m+1), wayPoint.(m+2), and no other waypoint key.
C8_WaypointKeysExact ==
    \A i \in RouteQueries :
        WaypointKeysOf(trace[i].call.params) = ExpectedKeys(Len(ruta._paradas))

\* C8 amended: the waypoint keys of a routing query of a route with m
\* intermediate stops are wayPoint.1, viaWayPoint.2 .. viaWayPoint.(m+1),
\* wayPoint.(m+2) and, besides them, only the waypoint keys the caller
\* passed in the extra parameters of the route.
C8_WaypointKeysAmended ==
    \A i \in RouteQueries :
        WaypointKeysOf(trace[i].call.params) =
            ExpectedKeys(Len(ruta._paradas)) \cup WaypointKeysOf(ruta._kwargs)

\* C8 happens: a routing query of a route with two intermediate stops and
\* no extra parameter carries the four keys
C8_Witness ==
    /\ Len(ruta._paradas) = 2
    /\ ruta._kwargs = EmptyDict
    /\ RouteQueries # {}
    /\ \A i \in RouteQueries :
          DOMAIN trace[i].call.params =
              {"key", "wayPoint.1", "viaWayPoint.2", "viaWayPoint.3", "wayPoint.4"}

\* the token of a position
Token(ubicacion) == _posicion_a_string_url(ubicacion).val

\* the position a Localizacion was constructed with: its coordinate, else
\* its address
KnownPosition(l) ==
    IF locs[l].arg_latlng # None THEN locs[l].arg_latlng
    ELSE locs[l].arg_direccion

\* the coordinate of an intermediate stop: the one it was constructed
\* with, else the one its resolution found
ViaPosition(l) ==
    IF locs[l].arg_latlng # None THEN locs[l].arg_latlng
    ELSE ReadCoordinates(locs[l].data)

\* C9: in every routing query of Ruta.procesar wayPoint.1 is the token of
\* the position the start was constructed with, wayPoint.N that of the end
\* (N = number of intermediate stops + 2), viaWayPoint.k the token of the
\* coordinate of intermediate stop k-1 in order, and none of these values
\* is None, however start and end were constructed.
C9_WaypointValues ==
    \A i \in RouteQueries :
        LET params == trace[i].call.params
            N      == Len(ruta._paradas) + 2
        IN  /\ ExpectedKeys(N - 2) \subseteq DOMAIN params
            /\ params["wayPoint.1"] = Token(KnownPosition(ruta._inicio))
            /\ params["wayPoint." \o ToString(N)] = Token(KnownPosition(ruta._final))
            /\ \A k \in 2..(N - 1) :
                  params["viaWayPoint." \o ToString(k)] =
                      Token(ViaPosition(ruta._paradas[k - 1]))
            /\ \A key \in ExpectedKeys(N - 2) : params[key] # None

\* C10: a Bing location request for an address carries it in the parameter
\* query and has nothing after /Locations in the path; one for a coordinate
\* carries the token lat,lng in the path and has no parameter query; in
\* both the API key is among the parameters.
C10_LocationRequestShape ==
    \A i \in LocationQueries :
        LET c == trace[i].call
        IN  /\ "key" \in DOMAIN c.params
            /\ c.params["key"] = ApiKey
            /\ c.arg.kind = "str" =>
                  /\ c.path = None
                  /\ "query" \in DOMAIN c.params
                  /\ c.params["query"] = c.arg
            /\ c.arg.kind = "tuple" =>
                  /\ c.path = Token(c.arg)
                  /\ "query" \notin DOMAIN c.params

(***************************************************************************)
(* Error kinds of a location resolution.                                   *)
(***************************************************************************)
\* C11: when Nominatim finds nothing and the result set of Bing is empty,
\* the resolution of the Location fails, and with an error of another kind
\* than the one a transport or decoding failure gives (ResolutionFailed).
C11_NotFoundDistinguished ==
    \A l \in LocIds :
        (last.who = l /\ last.op \in LocOps /\ Issued(l, trace)
            /\ locs[l]._map_service = "OpenService"
            /\ last.ans[l].nominatim.kind = "None"
            /\ last.ans[l].bing.kind = "empty")
            => /\ last.ret.err # "ok"
               /\ ErrorKind(last.ret.err) # "ResolutionFailed"

(***************************************************************************)
(* The endpoints of a route.                                               *)
(***************************************************************************)
\* the Localizacion objects among the intermediate stops of the route
ParadasDe(r) == {r._paradas[i] : i \in 1..Len(r._paradas)}

\* the heap with neither flag of Localizacion l set
SinDatos(l) ==
    [locs EXCEPT ![l]._latlng_recibido = FALSE, ![l]._direccion_recibida = FALSE]

\* C12: Ruta.procesar does not process its start or end: every geocoding
\* call it issues is for an intermediate stop, and a start or end used
\* only as an endpoint is left as it was, not processed.  Were the start or
\* the end to have neither a received coordinate nor a received address,
\* procesar would fail with DependencyUnresolved without a remote call.
C12_EndpointsNotForced ==
    /\ LastWas(RutaId, "procesar") =>
          /\ \A i \in 1..Len(trace) :
                trace[i].who # RutaId => trace[i].who \in ParadasDe(ruta)
          /\ \A l \in {ruta._inicio, ruta._final} \ ParadasDe(ruta) :
                ~hist[l].intentado => ~locs[l]._data_procesada
    /\ ruta.creado =>
          \A l \in {ruta._inicio, ruta._final} :
              LET r == Ruta_procesar([ruta EXCEPT !._data_procesada = FALSE],
                                     SinDatos(l), [e \in LocIds |-> OkOracle],
                                     OkRutaOracle)
              IN  /\ ErrorKind(r.ret.err) = "DependencyUnresolved"
                  /\ r.calls = <<>>

\* C12 happens: procesar of a route whose start has only an address and is
\* no intermediate stop sends the routing query, and the start stays
\* unprocessed
C12_Witness ==
    /\ LastWas(RutaId, "procesar")
    /\ AddrOnly(ruta._inicio)
    /\ ruta._inicio \notin ParadasDe(ruta)
    /\ RouteQueries # {}
    /\ last.ret.err = "ok"
    /\ ~locs[ruta._inicio]._data_procesada

(***************************************************************************)
(* Validation of coordinates.                                              *)
(***************************************************************************)
\* latitude within [-90, 90] and longitude within [-180, 180]
EnRango(latlng) == latlng[1] \in -90..90 /\ latlng[2] \in -180..180

\* C13: processing a Localizacion whose coordinate is out of range, by
\* procesar or through obtener_direccion, fails with InvalidPosition and
\* issues no remote call, neither to Nominatim nor to Bing.
C13_InvalidPositionNoCall ==
    \A l \in LocIds :
        (last.who = l /\ last.op \in {"procesar", "obtener_direccion"}
            /\ CoordOnly(l) /\ ~EnRango(locs[l].arg_latlng.val))
            => /\ ErrorKind(last.ret.err) = "InvalidPosition"
               /\ trace = <<>>

(***************************************************************************)
(* The coordinate encoder on its own.                                      *)
(*   SpecEnc  _tuple_LatLng_to_string applied to the latitudes and         *)
(*            longitudes at most MaxOver away from 0 and from the bounds   *)
(*            of their ranges                                              *)
(***************************************************************************)
Cerca(c) == (c - MaxOver)..(c + MaxOver)

EncLats == Cerca(-90) \cup Cerca(0) \cup Cerca(90)

EncLngs == Cerca(-180) \cup Cerca(0) \cup Cerca(180)

TupleLatLngToString ==
    \E lat \in EncLats, lng \in EncLngs :
        CalledWith("_tuple_LatLng_to_string", PyTuple(<<lat, lng>>), RutaId, locs,
                   ruta, _tuple_LatLng_to_string(<<lat, lng>>), <<>>,
                   [e \in Entities |-> NoOracle])

NextEnc == TupleLatLngToString

SpecEnc == Init /\ [][NextEnc]_vars

\* the pair of integers the text s writes as <integer>,<integer>, <<>> when
\* s is not of that form
DecodeToken(s) ==
    LET lat == ParseInt(s, 1)
        lng == ParseInt(s, ParseLit(s, lat.next, <<",">>))
    IN  IF lng.next = Len(s) + 1 THEN <<lat.val, lng.val>> ELSE <<>>

\* C14: _tuple_LatLng_to_string returns exactly when the latitude is in
\* [-90, 90] and the longitude in [-180, 180], bounds included, and then
\* the str it returns reads <lat>,<lng>; otherwise it fails with
\* InvalidPosition.
C14_EncoderRanges ==
    last.op = "_tuple_LatLng_to_string" =>
        IF EnRango(last.arg.val)
        THEN /\ last.ret.err = "ok"
             /\ last.ret.val.kind = "str"
             /\ DecodeToken(last.ret.val.val) = last.arg.val
        ELSE ErrorKind(last.ret.err) = "InvalidPosition"

\* C14 happens: the coordinate at the lower bound of the latitude and the
\* upper bound of the longitude is encoded
C14_Witness ==
    /\ last.op = "_tuple_LatLng_to_string"
    /\ last.arg = PyTuple(<<-90, 180>>)
    /\ last.ret = Return(PyStr(<<"-", "9", "0", ",", "1", "8", "0">>))

(***************************************************************************)
(* Units of the route accessors.                                           *)
(***************************************************************************)
\* what accessor op of the route returns in the current state when no
\* service answers
RutaValue(op) ==
    Devolver(op, RutaProcesarSiHaceFalta(ruta, locs, [l \in LocIds |-> NoOracle],
                                         NoOracle)).ret.val

tiempo_de_viaje_minutos_con_velocidad_constante_negativa(self, localizaciones, distancia_km, velocidad_km_h) ==
    [self |-> self, locs |-> localizaciones, calls |-> <<>>,
     ret  |-> IF velocidad_km_h < 0
              THEN Raise("La velocidad debe ser mayor a cero.")
              ELSE Return(PyQuotient(distancia_km * 60, velocidad_km_h))]

\* (distancia_km / velocidad_km_h) * 60 is kept as the quotient of
\* distancia_km * 60 by velocidad_km_h
tiempo_de_viaje_minutos_con_velocidad_constante(self, localizaciones, distancia_km, velocidad_km_h) ==
    [self |-> self, locs |-> localizaciones, calls |-> <<>>,
     ret  |-> IF velocidad_km_h <= 0
              THEN Raise("La velocidad debe ser mayor a cero.")
              ELSE Return(PyQuotient(distancia_km * 60, velocidad_km_h))]

(***************************************************************************)
(* Static map images.  urllib.request.urlretrieve answers img: an error    *)
(* when the download raises, else the number that tells the Image object   *)
(* it leads to from the other Image objects.                               *)
(***************************************************************************)
ImageIds == {1, 2}

ImageError == [kind |-> "error", id |-> 0]

ImageAnswers == {ImageError} \cup {[kind |-> "ok", id |-> n] : n \in ImageIds}

\* Image(filename=filename), the object numbered id
Image(filename, id) == [kind |-> "Image", val |-> <<filename, id>>]

\* str(width) + ',' + str(height)
MapSize(width, height) == PyStr(str(width) \o <<",">> \o str(height))

\* urllib.request.urlretrieve(url, filename); return Image(filename=filename)
Urlretrieve(url, path, params, filename, img) ==
    [ret   |-> IF img.kind = "error" THEN Raise("URLError")
               ELSE Return(Image(filename, img.id)),
     calls |-> <<BingCall(url, path, params, PyStr(filename))>>]

\* 'images/localizacion(' + token + ').png'
LocalizacionFilename(token) ==
    <<"i", "m", "a", "g", "e", "s", "/", "l", "o", "c", "a", "l", "i", "z", "a",
      "c", "i", "o", "n", "(">> \o token \o <<")", ".", "p", "n", "g">>

\* the request of _rest_localizacion_imagen for the position token, which
\* the conversion of a tuple may have raised instead; a position that is
\* neither tuple nor str has no token to build the file name from
LocalizacionImagenRequest(ubicacion, token, params, img) ==
    IF token.err # "ok" THEN [ret |-> Raise(token.err), calls |-> <<>>]
    ELSE IF token.val.kind # "str"
    THEN [ret |-> Raise("TypeError"), calls |-> <<>>]
    ELSE Urlretrieve("Imagery/Map/Road", token.val,
             IF ubicacion.kind = "tuple"
             THEN DictUpdate(params,
                      "pushpin" :> PyStr(token.val.val \o <<";", "6", "6">>))
             ELSE params,
             LocalizacionFilename(token.val.val), img)

\* BingService._rest_localizacion_imagen; OpenService has the same
\* statements
BingService_rest_localizacion_imagen(ubicacion, width, height, zoomLevel, kwargs, img) ==
    LocalizacionImagenRequest(ubicacion, _posicion_a_string_url(ubicacion),
        DictUpdate(DictUpdate(DictUpdate(DictUpdate(kwargs, "key" :> ApiKey),
                                         "zoomLevel" :> PyInt(zoomLevel)),
                              "dpi" :> PyStr(<<"L", "a", "r", "g", "e">>)),
                   "mapSize" :> MapSize(width, height)),
        img)

OpenService_rest_localizacion_imagen(ubicacion, width, height, zoomLevel, kwargs, img) ==
    BingService_rest_localizacion_imagen(ubicacion, width, height, zoomLevel,
                                         kwargs, img)

_rest_localizacion_imagen(map_service, ubicacion, width, height, zoomLevel, kwargs, img) ==
    IF map_service = "OpenService"
    THEN OpenService_rest_localizacion_imagen(ubicacion, width, height, zoomLevel,
                                              kwargs, img)
    ELSE BingService_rest_localizacion_imagen(ubicacion, width, height, zoomLevel,
                                              kwargs, img)

\* the try block of obtener_imagen, r being the outcome of the image
\* request made after the calls calls: on success self._imagen and
\* self._imagen_procesada are assigned; any exception becomes
\* ValueError('Error, al procesar REST')
\* a mutation of ImagenGuardar: a failed fetch is remembered as the image
ImagenGuardar_memofallo(self, calls, r) ==
    IF r.ret.err = "ok"
    THEN [self  |-> [self EXCEPT !._imagen = r.ret.val, !._imagen_procesada = TRUE],
          ret   |-> Return(r.ret.val),
          calls |-> calls \o r.calls]
    ELSE [self  |-> [self EXCEPT !._imagen_procesada = TRUE],
          ret   |-> Raise("Error, al procesar REST"),
          calls |-> calls \o r.calls]

ImagenGuardar(self, calls, r) ==
    IF r.ret.err = "ok"
    THEN [self  |-> [self EXCEPT !._imagen = r.ret.val, !._imagen_procesada = TRUE],
          ret   |-> Return(r.ret.val),
          calls |-> calls \o r.calls]
    ELSE [self  |-> self,
          ret   |-> Raise("Error, al procesar REST"),
          calls |-> calls \o r.calls]

\* obtener_imagen from latlng = self.obtener_latlng() on, p being the
\* outcome of the processing; width, height and zoomLevel take their
\* defaults
ImagenTrasProcesar(p, kwargs, o, img) ==
    IF p.ret.err # "ok" THEN p
    ELSE ImagenGuardar(p.self, p.calls,
             _rest_localizacion_imagen(p.self._map_service,
                 obtener_latlng(p.self, o).ret.val, 500, 500, 16, kwargs, img))

\* a mutation of Localizacion_obtener_imagen: the stored image is not used
Localizacion_obtener_imagen_refetch(self, kwargs, o, img) ==
    ImagenTrasProcesar(ProcesarSiHaceFalta(self, o), kwargs, o, img)

Localizacion_obtener_imagen(self, kwargs, o, img) ==
    IF self._imagen_procesada
    THEN [self |-> self, ret |-> Return(self._imagen), calls |-> <<>>]
    ELSE ImagenTrasProcesar(ProcesarSiHaceFalta(self, o), kwargs, o, img)

\* the distances and speeds the method is called with
Distancias == {0, 30}

Velocidades == {-1, 0, 60}

RutaVelocidadConstante ==
    /\ ruta.creado
    /\ \E d \in Distancias, v \in Velocidades :
          \E r \in {tiempo_de_viaje_minutos_con_velocidad_constante(ruta, locs, d, v)} :
              CalledWith("tiempo_de_viaje_minutos_con_velocidad_constante",
                         PyTuple(<<d, v>>), RutaId, r.locs, r.self, r.ret, r.calls,
                         [e \in Entities |-> NoOracle])

\* 'images/Ruta(' + inicio + ')(' + final + ').png'
RutaFilename(inicio, final) ==
    <<"i", "m", "a", "g", "e", "s", "/", "R", "u", "t", "a", "(">> \o inicio \o <<")", "(">>
        \o final \o <<")", ".", "p", "n", "g">>

\* the request of _rest_ruta_imagen for the converted stops paradas; a first
\* or last stop that is neither tuple nor str has no token to build the file
\* name from
RutaImagenRequest(paradas, kwargs, width, height, img) ==
    IF paradas.err # "ok" THEN [ret |-> Raise(paradas.err), calls |-> <<>>]
    ELSE IF paradas.vals[1].kind # "str" \/ paradas.vals[Len(paradas.vals)].kind # "str"
    THEN [ret |-> Raise("TypeError"), calls |-> <<>>]
    ELSE Urlretrieve("Imagery/Map/Road/Routes/Driving", None,
             DictUpdate(DictUpdate(DictUpdate(DictUpdate(kwargs, Viajes(paradas.vals)),
                                              "key" :> ApiKey),
                                   "mapSize" :> MapSize(width, height)),
                        "dpi" :> PyStr(<<"L", "a", "r", "g", "e">>)),
             RutaFilename(paradas.vals[1].val, paradas.vals[Len(paradas.vals)].val),
             img)

\* BingService._rest_ruta_imagen; OpenService has the same statements
BingService_rest_ruta_imagen(inicio, final, via, width, height, kwargs, img) ==
    RutaImagenRequest(Paradas(Stops(inicio, final, via), [err |-> "ok", vals |-> <<>>]),
                      kwargs, width, height, img)

OpenService_rest_ruta_imagen(inicio, final, via, width, height, kwargs, img) ==
    BingService_rest_ruta_imagen(inicio, final, via, width, height, kwargs, img)

_rest_ruta_imagen(map_service, inicio, final, via, width, height, kwargs, img) ==
    IF map_service = "OpenService"
    THEN OpenService_rest_ruta_imagen(inicio, final, via, width, height, kwargs, img)
    ELSE BingService_rest_ruta_imagen(inicio, final, via, width, height, kwargs, img)

\* the end of the try block of obtener_imagen, r being the outcome of
\* _rest_ruta_imagen
RutaImagenGuardar(self, vias, r) ==
    IF r.ret.err # "ok"
    THEN [self |-> self, locs |-> vias.locs,
          calls |-> vias.calls \o Tagged(RutaId, r.calls),
          ret |-> Raise("Error, al procesar REST")]
    ELSE [self |-> [self EXCEPT !._imagen = r.ret.val, !._imagen_procesada = TRUE],
          locs |-> vias.locs,
          calls |-> vias.calls \o Tagged(RutaId, r.calls),
          ret |-> Return(r.ret.val)]

\* the try block, vias being the outcome of the comprehension over the
\* intermediate stops; width and height take their defaults
RutaImagenREST(self, proc_inicio, proc_final, vias, kwargs, img) ==
    IF vias.err # "ok"
    THEN [self |-> self, locs |-> vias.locs, calls |-> vias.calls,
          ret |-> Raise("Error, al procesar REST")]
    ELSE RutaImagenGuardar(self, vias,
             _rest_ruta_imagen(self._map_service, proc_inicio, proc_final,
                               vias.vals, 500, 500, kwargs, img))

\* obtener_imagen from the point where proc_inicio and proc_final are known
RutaImagenVias(self, acc, kwargs, ov, img) ==
    IF acc.err # "ok" THEN RutaRaise(self, acc, acc.err)
    ELSE RutaImagenREST(self, acc.vals[1], acc.vals[2],
             ParadasLatlng(self._paradas, 1,
                 [locs |-> acc.locs, vals |-> <<>>, calls |-> acc.calls,
                  err |-> "ok"], ov),
             kwargs, img)

\* obtener_imagen from the point where proc_inicio is known
RutaImagenFinal(self, acc, kwargs, ov, img) ==
    IF acc.err # "ok" THEN RutaRaise(self, acc, acc.err)
    ELSE RutaImagenVias(self,
             ParadasLatlngAppend(acc, self._final,
                 ProcExtremo(acc.locs[self._final], ov[self._final], "final")),
             kwargs, ov, img)

\* obtener_imagen after p, the outcome of the processing
RutaImagenTrasProcesar(p, kwargs, ov, img) ==
    IF p.ret.err # "ok" THEN p
    ELSE RutaImagenFinal(p.self,
             ParadasLatlngAppend(
                 [locs |-> p.locs, vals |-> <<>>, calls |-> p.calls, err |-> "ok"],
                 p.self._inicio,
                 ProcExtremo(p.locs[p.self._inicio], ov[p.self._inicio], "inicio")),
             kwargs, ov, img)

\* a mutation of Ruta_obtener_imagen: the stored image is not used
Ruta_obtener_imagen_refetch(self, localizaciones, kwargs, ov, o, img) ==
    RutaImagenTrasProcesar(RutaProcesarSiHaceFalta(self, localizaciones, ov, o),
                           kwargs, ov, img)

\* a mutation of Ruta_obtener_imagen: the stored image answers only a call
\* without extra parameters
Ruta_obtener_imagen_porparams(self, localizaciones, kwargs, ov, o, img) ==
    IF self._imagen_procesada /\ kwargs = EmptyDict
    THEN [self |-> self, locs |-> localizaciones, calls |-> <<>>,
          ret |-> Return(self._imagen)]
    ELSE RutaImagenTrasProcesar(RutaProcesarSiHaceFalta(self, localizaciones, ov, o),
                                kwargs, ov, img)

Ruta_obtener_imagen(self, localizaciones, kwargs, ov, o, img) ==
    IF self._imagen_procesada
    THEN [self |-> self, locs |-> localizaciones, calls |-> <<>>,
          ret |-> Return(self._imagen)]
    ELSE RutaImagenTrasProcesar(RutaProcesarSiHaceFalta(self, localizaciones, ov, o),
                                kwargs, ov, img)

RutaObtenerImagen(oracles) ==
    /\ ruta.creado
    /\ \E a \in RutaAnswers(oracles),
          img \in IF ruta._imagen_procesada THEN {ImageError} ELSE ImageAnswers,
          kw \in RutaKwargs :
          \E r \in {Ruta_obtener_imagen(ruta, locs, kw, a.ov, a.o, img)} :
              CalledWith("obtener_imagen", PyDict(kw), RutaId, r.locs, r.self, r.ret,
                         r.calls, [e \in Entities |-> NoOracle])

LocObtenerImagen(l, oracles) ==
    /\ locs[l].creado
    /\ \E o \in LocAnswers("obtener_imagen", locs[l], oracles),
          img \in IF locs[l]._imagen_procesada THEN {ImageError} ELSE ImageAnswers,
          kw \in LocKwargs :
          \E r \in {Localizacion_obtener_imagen(locs[l], kw, o, img)} :
              CalledWith("obtener_imagen", PyDict(kw), l, [locs EXCEPT ![l] = r.self],
                         ruta, r.ret, Tagged(l, r.calls), [e \in Entities |-> o])

(***************************************************************************)
(*   SpecLocImagen  one Localizacion, constructed from a coordinate in or  *)
(*                  out of range or from an address, of which the image    *)
(*                  is asked                                               *)
(***************************************************************************)
NextLocImagen ==
    \/ NewLocalizacion(1, LatLngs \cup BadLatLngs, Direcciones, {EmptyDict})
    \/ LocProcesar(1, SmallOracles)
    \/ LocObtenerLatlng(1, SmallOracles)
    \/ LocObtenerImagen(1, SmallOracles)

SpecLocImagen == Init /\ [][NextLocImagen]_vars

(***************************************************************************)
(*   SpecImagen  two Localizacion objects and a Ruta over them with at     *)
(*               most MaxParadas intermediate stops, all holding an        *)
(*               OpenService; the image of the route is asked, and travel  *)
(*               times at a constant speed                                 *)
(***************************************************************************)
NextImagen ==
    \/ \E l \in LocIds : NewLocalizacion(l, LatLngs, Direcciones, {EmptyDict})
    \/ NewRutaCon(ParadasHasta(MaxParadas), {EmptyDict})
    \/ RutaProcesar(SmallOracles)
    \/ RutaObtenerImagen(SmallOracles)
    \/ RutaVelocidadConstante

SpecImagen == InitOpen /\ [][NextImagen]_vars

\* the image downloads of the last call
ImageFetches ==
    {i \in BingCalls : trace[i].call.url \in {"Imagery/Map/Road",
                                              "Imagery/Map/Road/Routes/Driving"}}

\* C18: once obtener_imagen of a Localizacion has returned an image, the
\* object keeps it, and every later obtener_imagen of that Localizacion
\* returns that same image and issues no remote call, whatever its
\* arguments; so an image is downloaded successfully at most once.
C18_LocationImageMemoized ==
    \A l \in LocIds :
        /\ hist[l].imagen # None =>
              locs[l]._imagen_procesada /\ locs[l]._imagen = hist[l].imagen
        /\ (LastWas(l, "obtener_imagen") /\ last.antes.imagen # None) =>
              /\ trace = <<>>
              /\ last.ret = Return(last.antes.imagen)
        /\ (LastWas(l, "obtener_imagen") /\ last.ret.err = "ok"
                /\ ImageFetches # {}) => last.antes.imagen = None

\* C18 happens: an image was returned before, and obtener_imagen is called
\* again with other arguments
C18_Witness ==
    /\ LastWas(1, "obtener_imagen")
    /\ last.antes.imagen # None
    /\ DOMAIN last.arg.val = {"key"}
    /\ last.ret.err = "ok"

C19_RouteImageMemoized ==
    /\ hist[RutaId].imagen # None =>
          ruta._imagen_procesada /\ ruta._imagen = hist[RutaId].imagen
    /\ (LastWas(RutaId, "obtener_imagen") /\ last.antes.imagen # None) =>
          /\ trace = <<>>
          /\ last.ret = Return(last.antes.imagen)
    /\ (LastWas(RutaId, "obtener_imagen") /\ last.ret.err = "ok"
            /\ ImageFetches # {}) => last.antes.imagen = None

\* C19 happens: an image was returned before, and obtener_imagen of the
\* route is called again with other arguments
C19_Witness ==
    /\ LastWas(RutaId, "obtener_imagen")
    /\ last.antes.imagen # None
    /\ DOMAIN last.arg.val = {"wayPoint.2"}
    /\ last.ret.err = "ok"

(***************************************************************************)
(* Translated directions.  The translation service answers t: 0 when every *)
(* translation succeeds, i when the i-th translation asked raises.  The    *)
(* attribute _translator of the route tells whether a Translator object    *)
(* has been stored in it.                                                  *)
(***************************************************************************)
TranslateAnswers == {0, 1, 2}

\* Translator().translate(texto, src='en', dest='es')
TranslateCall(texto) ==
    [api |-> "Translate", url |-> "", path |-> None,
     params |-> ("src" :> PyStr(<<"e", "n">>)) @@ ("dest" :> PyStr(<<"e", "s">>)),
     arg |-> [kind |-> "text", val |-> texto]]

\* the attribute text of the translation of texto
Traducido(texto) == "es:" \o texto

\* the loop over the items from item i on with traducir set: acc carries
\* the texts appended so far, the translations asked and the exception
\* that ended the loop
RECURSIVE Traducciones(_, _, _, _)
Traducciones(items, i, t, acc) ==
    IF i > Len(items) \/ acc.err # "ok" THEN acc
    ELSE Traducciones(items, i + 1, t,
             [vals  |-> IF t = i THEN acc.vals
                        ELSE Append(acc.vals, Traducido(items[i])),
              calls |-> Append(acc.calls, TranslateCall(items[i])),
              err   |-> IF t = i THEN "TranslatorError" ELSE "ok"])

\* a mutation of IndicacionesTraducidas: a translation that raises discards
\* the data of the route
IndicacionesTraducidas_invalidate(p, tr) ==
    [self  |-> IF tr.err = "ok"
               THEN [p.self EXCEPT !._translator = @ \/ tr.calls # <<>>]
               ELSE [p.self EXCEPT !._translator = TRUE,
                                   !._data_procesada = FALSE,
                                   !.data = NoRouteData],
     locs  |-> p.locs,
     calls |-> p.calls \o Tagged(RutaId, tr.calls),
     ret   |-> IF tr.err = "ok" THEN Return(PyList(tr.vals)) ELSE Raise(tr.err)]

\* the end of indicaciones_ruta(traducir=True), tr being the outcome of the
\* loop entered after the processing p: the exception of a translation is
\* not caught
IndicacionesTraducidas(p, tr) ==
    [self  |-> [p.self EXCEPT !._translator = @ \/ tr.calls # <<>>],
     locs  |-> p.locs,
     calls |-> p.calls \o Tagged(RutaId, tr.calls),
     ret   |-> IF tr.err = "ok" THEN Return(PyList(tr.vals)) ELSE Raise(tr.err)]

\* indicaciones_ruta(traducir=True) after p, the outcome of the processing
IndicacionesTrasProcesar(p, t) ==
    IF p.ret.err # "ok" THEN p
    ELSE IndicacionesTraducidas(p,
             Traducciones(p.self.data.itineraryItems, 1, t,
                          [vals |-> <<>>, calls |-> <<>>, err |-> "ok"]))

\* indicaciones_ruta(traducir=True)
indicaciones_ruta_traducir(self, localizaciones, ov, o, t) ==
    IndicacionesTrasProcesar(RutaProcesarSiHaceFalta(self, localizaciones, ov, o), t)

RutaIndicacionesTraducir(oracles) ==
    /\ ruta.creado
    /\ \E a \in RutaAnswers(oracles), t \in TranslateAnswers :
          \E r \in {indicaciones_ruta_traducir(ruta, locs, a.ov, a.o, t)} :
              CalledWith("indicaciones_ruta", PyBool(TRUE), RutaId, r.locs, r.self,
                         r.ret, r.calls, [e \in Entities |-> NoOracle])

(***************************************************************************)
(* Geodesic distance.                                                      *)
(***************************************************************************)
\* geodesic(p1, p2).km of geopy: the number is not computed, it is the
\* distance between p1 and p2; geopy refuses a latitude out of range
Geodesic(p1, p2) ==
    IF p1.val[1] > 90 \/ p1.val[1] < -90 \/ p2.val[1] > 90 \/ p2.val[1] < -90
    THEN Raise("Latitude must be in the [-90; 90] range.")
    ELSE Return([kind |-> "km", val |-> <<p1.val, p2.val>>])

\* the return statement: acc.vals[3] and acc.vals[4] are what the two
\* obtener_latlng() of the else branch returned
GeodesicaKm(self, acc) ==
    IF acc.err # "ok" THEN RutaRaise(self, acc, acc.err)
    ELSE [self |-> self, locs |-> acc.locs, calls |-> acc.calls,
          ret |-> Geodesic(acc.vals[3], acc.vals[4])]

\* the else branch from its second obtener_latlng() on
GeodesicaElse(self, acc, ov) ==
    IF acc.err # "ok" THEN RutaRaise(self, acc, acc.err)
    ELSE GeodesicaKm(self,
             ParadasLatlngAppend(acc, self._final,
                 obtener_latlng(acc.locs[self._final], ov[self._final])))

\* the condition after self._final.obtener_latlng()
GeodesicaFinal(self, acc, ov) ==
    IF acc.err # "ok" THEN RutaRaise(self, acc, acc.err)
    ELSE IF acc.vals[2] = None
    THEN RutaRaise(self, acc,
             "Error, ejecutar el metodo procesar() en las localizaciones de la ruta")
    ELSE GeodesicaElse(self,
             ParadasLatlngAppend(acc, self._inicio,
                 obtener_latlng(acc.locs[self._inicio], ov[self._inicio])),
             ov)

\* the condition after self._inicio.obtener_latlng(): a None ends it
GeodesicaInicio(self, acc, ov) ==
    IF acc.err # "ok" THEN RutaRaise(self, acc, acc.err)
    ELSE IF acc.vals[1] = None
    THEN RutaRaise(self, acc,
             "Error, ejecutar el metodo procesar() en las localizaciones de la ruta")
    ELSE GeodesicaFinal(self,
             ParadasLatlngAppend(acc, self._final,
                 obtener_latlng(acc.locs[self._final], ov[self._final])),
             ov)

\* a mutation of distancia_geodesica_kilometros: the route is processed
\* first when it has not been
distancia_geodesica_kilometros_procesada(self, localizaciones, ov) ==
    LET p == RutaProcesarSiHaceFalta(self, localizaciones, ov, OkRutaOracle)
    IN  GeodesicaInicio(p.self,
            ParadasLatlngAppend(
                [locs |-> p.locs, vals |-> <<>>, calls |-> p.calls, err |-> "ok"],
                self._inicio,
                obtener_latlng(p.locs[self._inicio], ov[self._inicio])),
            ov)

distancia_geodesica_kilometros(self, localizaciones, ov) ==
    GeodesicaInicio(self,
        ParadasLatlngAppend(
            [locs |-> localizaciones, vals |-> <<>>, calls |-> <<>>, err |-> "ok"],
            self._inicio,
            obtener_latlng(localizaciones[self._inicio], ov[self._inicio])),
        ov)

\* the answers the geocoders may give during a method of the route that
\* asks its two endpoints for their coordinate
EndpointAnswers(oracles) ==
    LET asks == {l \in {ruta._inicio, ruta._final} :
                    Consulta("obtener_latlng", locs[l])}
    IN  {[l \in LocIds |-> IF l \in asks THEN ask[l] ELSE NoOracle] :
            ask \in [asks -> oracles]}

RutaGeodesica(oracles) ==
    /\ ruta.creado
    /\ \E ov \in EndpointAnswers(oracles) :
          RutaDone("distancia_geodesica_kilometros",
                   distancia_geodesica_kilometros(ruta, locs, ov))

(***************************************************************************)
(*   SpecViaje  two Localizacion objects and a Ruta over them with at      *)
(*              most MaxParadas intermediate stops, all holding an         *)
(*              OpenService; the route is processed and asked for its      *)
(*              distance, its directions, translated or not, and the       *)
(*              geodesic distance of its endpoints                         *)
(***************************************************************************)
NextViaje ==
    \/ \E l \in LocIds : NewLocalizacion(l, LatLngs, Direcciones, {EmptyDict})
    \/ NewRutaCon(ParadasHasta(MaxParadas), {EmptyDict})
    \/ RutaProcesar(SmallOracles)
    \/ RutaKilometros(SmallOracles)
    \/ RutaIndicaciones(SmallOracles)
    \/ RutaIndicacionesTraducir(SmallOracles)
    \/ RutaGeodesica(SmallOracles)

SpecViaje == InitOpen /\ [][NextViaje]_vars

\* the last call was indicaciones_ruta(traducir=True) and ended with the
\* exception of a translation
FalloTraduccion ==
    /\ LastWas(RutaId, "indicaciones_ruta")
    /\ last.arg = PyBool(TRUE)
    /\ ErrorKind(last.ret.err) = "TranslationFailed"

\* C17: the exception of a translation inside
\* indicaciones_ruta(traducir=True) reaches the caller and leaves the route
\* processed; when the route was processed before that call, its data are
\* the same after it and the call sends no routing query; and the call of
\* indicaciones_ruta() or of a distance or time accessor that follows
\* returns what it reads from those data without any remote call.
C17_TranslationFailureKeepsRoute ==
    [][/\ FalloTraduccion' =>
              /\ \E i \in 1..Len(trace') : trace'[i].call.api = "Translate"
              /\ ruta'._data_procesada
              /\ ruta._data_procesada =>
                    /\ ruta'.data = ruta.data
                    /\ RouteQueries' = {}
       /\ (FalloTraduccion /\ last'.op \in RutaAccessors /\ last'.arg = None) =>
              /\ trace' = <<>>
              /\ ruta' = ruta
              /\ last'.ret = Return(ReadOf(last'.op, ruta.data))]_vars

\* C17 happens: the second translation of a processed route has raised
C17_Witness ==
    /\ FalloTraduccion
    /\ last.antes.exito
    /\ Len(trace) = 2
    /\ ruta.data.itineraryItems = <<"R", "S">>

\* C20: distancia_geodesica_kilometros sends no routing query and leaves
\* the route object as it was, processed or not; the remote calls it causes
\* are geocodings of the start and of the end, and a start or end whose
\* coordinate was received or whose data are processed is neither changed
\* nor geocoded.
C20_GeodesicLeavesRoute ==
    [][last'.op = "distancia_geodesica_kilometros" =>
          /\ ruta' = ruta
          /\ RouteQueries' = {}
          /\ \A i \in 1..Len(trace') : trace'[i].who \in {ruta._inicio, ruta._final}
          /\ \A l \in LocIds :
                (l \notin {ruta._inicio, ruta._final} \/ locs[l]._latlng_recibido
                    \/ locs[l]._data_procesada) =>
                    /\ locs'[l] = locs[l]
                    /\ ~Issued(l, trace')]_vars

\* C20 happens: on a route that is not processed the distance is returned
\* after the end has been geocoded
C20_Witness ==
    /\ LastWas(RutaId, "distancia_geodesica_kilometros")
    /\ last.ret.err = "ok"
    /\ ~ruta._data_procesada
    /\ locs[ruta._inicio]._latlng_recibido
    /\ Issued(ruta._final, trace)

(***************************************************************************)
(* Validation at construction.                                             *)
(***************************************************************************)
\* the arguments Localizacion l was constructed with are well shaped: at
\* least one is given, a coordinate given is a tuple or list and an address
\* given is a str
BienFormada(l) ==
    /\ locs[l].arg_latlng # None \/ locs[l].arg_direccion # None
    /\ locs[l].arg_latlng = None \/ locs[l].arg_latlng.kind = "tuple"
    /\ locs[l].arg_direccion = None \/ locs[l].arg_direccion.kind = "str"

\* C22: a Localizacion is never constructed from wrongly shaped arguments:
\* with neither coordinate nor address, with a coordinate that is not a
\* tuple or list, or with an address that is not a str, also when both are
\* given, the constructor raises and issues no remote call.
C22_WrongShapeRejected ==
    /\ \A l \in LocIds : locs[l].creado => BienFormada(l)
    /\ last.op = "__init__" => trace = <<>>

(***************************************************************************)
(* Failures of the geocoders.                                              *)
(***************************************************************************)
\* the last call asked the services for Localizacion l, held by an
\* OpenService, and Nominatim raised
PrimarioFalla(l) ==
    /\ last.who = l
    /\ last.op \in LocOps
    /\ Issued(l, trace)
    /\ locs[l]._map_service = "OpenService"
    /\ last.ans[l].nominatim.kind = "error"

\* C26: when Nominatim raises during the geocoding of a Localizacion held by
\* an OpenService, Bing is not asked: the only remote call is the one to
\* Nominatim, the call fails with 'Error, al procesar REST', and the object
\* stays unprocessed with no data.
C26_PrimaryErrorNoFallback ==
    \A l \in LocIds :
        PrimarioFalla(l) =>
            /\ Len(trace) = 1
            /\ BingCalls = {}
            /\ ErrorKind(last.ret.err) = "ResolutionFailed"
            /\ ~locs[l]._data_procesada
            /\ locs[l].data = NoData

\* C26 happens: procesar of an address-only Localizacion, Nominatim raising
C26_Witness ==
    /\ PrimarioFalla(1)
    /\ AddrOnly(1)
    /\ last.op = "procesar"

(***************************************************************************)
(* Image of a Localizacion whose coordinate is known.                      *)
(***************************************************************************)
\* the remote calls of the last call that are geocodings
Geocodings == {i \in 1..Len(trace) : trace[i].call.url \in {"", "Locations"}}

\* C24: obtener_imagen of a Localizacion constructed with a coordinate,
\* alone or together with an address, and holding no image yet, issues no
\* geocoding call, does not raise the exception of the guard of procesar,
\* and downloads the image of the coordinate it was constructed with.
C24_ImageOfKnownCoordinate ==
    \A l \in LocIds :
        (LastWas(l, "obtener_imagen") /\ last.antes.imagen = None
            /\ (CoordOnly(l) \/ BothGiven(l)) /\ EnRango(locs[l].arg_latlng.val))
            => /\ Geocodings = {}
               /\ ErrorKind(last.ret.err) # "AlreadyResolved"
               /\ \E i \in ImageFetches :
                     trace[i].call.path = Token(locs[l].arg_latlng)

(***************************************************************************)
(* Intermediate stops of a route.                                          *)
(***************************************************************************)
\* the place of Localizacion l in the list of intermediate stops
PrimeraParada(l) ==
    CHOOSE i \in 1..Len(ruta._paradas) :
        ruta._paradas[i] = l /\ \A j \in 1..(i - 1) : ruta._paradas[j] # l

\* the remote calls of the last call made for a Localizacion
ViaCalls == {i \in 1..Len(trace) : trace[i].who \in LocIds}

\* C27: Ruta.procesar asks every intermediate stop for its coordinate
\* before it sends the routing query: the geocodings of the stops come in
\* the order of the list and before the query, a query is sent only when
\* every stop has a received coordinate or processed data, and when the
\* geocoding of a stop fails no query is sent, procesar fails with 'Error,
\* al procesar REST' and the route keeps no data.
C27_ViasBeforeRoute ==
    LastWas(RutaId, "procesar") =>
        /\ \A i \in ViaCalls, j \in RouteQueries : i < j
        /\ \A i \in ViaCalls, j \in ViaCalls :
              i < j => PrimeraParada(trace[i].who) <= PrimeraParada(trace[j].who)
        /\ RouteQueries # {} =>
              \A l \in ParadasDe(ruta) :
                  locs[l]._latlng_recibido \/ locs[l]._data_procesada
        /\ (\E l \in ParadasDe(ruta) : Issued(l, trace) /\ ~locs[l]._data_procesada)
              => /\ RouteQueries = {}
                 /\ ErrorKind(last.ret.err) = "ResolutionFailed"
                 /\ ~ruta._data_procesada
                 /\ ruta.data = NoRouteData

\* C27 happens: both stops of the list 2, 1 have an address only, procesar
\* geocodes 2, then 1, and then sends the routing query
C27_Witness ==
    /\ LastWas(RutaId, "procesar")
    /\ ruta._paradas = <<2, 1>>
    /\ AddrOnly(1) /\ AddrOnly(2)
    /\ Len(trace) >= 3
    /\ trace[1].who = 2
    /\ trace[Len(trace) - 1].who = 1
    /\ RouteQueries = {Len(trace)}
    /\ last.ret.err = "ok"

(***************************************************************************)
(*   SpecConsulta  two Localizacion objects, constructed from coordinates  *)
(*                 in or out of range or from an address, and a Ruta over  *)
(*                 them with at most MaxParadas intermediate stops, whose  *)
(*                 extra parameters may carry the names of the parameters  *)
(*                 the routing query computes; the route is processed      *)
(***************************************************************************)
ReservedKwargs ==
    {EmptyDict,
     ("key" :> PyStr(<<"U">>)) @@ ("wayPoint.1" :> PyStr(<<"X">>))
        @@ ("optimize" :> PyStr(<<"t">>)),
     ("viaWayPoint.2" :> PyStr(<<"Y">>)) @@ ("wayPoint.2" :> PyStr(<<"X">>))}

NextConsulta ==
    \/ \E l \in LocIds :
          NewLocalizacion(l, LatLngs \cup BadLatLngs, Direcciones, {EmptyDict})
    \/ NewRutaCon(ParadasHasta(MaxParadas), ReservedKwargs)
    \/ RutaProcesar(SmallOracles)

SpecConsulta == Init /\ [][NextConsulta]_vars

\* Localizacion l was constructed with a coordinate out of range and no
\* address
FueraDeRango(l) == CoordOnly(l) /\ ~EnRango(locs[l].arg_latlng.val)

\* C25: Ruta.procesar of a route whose start, end or an intermediate stop
\* has a coordinate out of range fails with InvalidPosition and issues no
\* remote call.
C25_RouteInvalidPosition ==
    (LastWas(RutaId, "procesar") /\ ~last.antes.exito
        /\ \E l \in {ruta._inicio, ruta._final} \cup ParadasDe(ruta) :
              FueraDeRango(l))
        => /\ ErrorKind(last.ret.err) = "InvalidPosition"
           /\ trace = <<>>

\* what the stop made of Localizacion l contributes to the routing query:
\* the token of the coordinate or address an endpoint returns, of the
\* coordinate an intermediate stop returns
EndpointToken(l) ==
    Token(IF locs[l]._latlng_recibido THEN locs[l]._latlng ELSE locs[l]._direccion)

ViaToken(l) ==
    Token(IF locs[l]._latlng_recibido THEN locs[l]._latlng
          ELSE ReadCoordinates(locs[l].data))

UnaRespuesta ==
    {[nominatim |-> NomError, bing |-> BingError],
     [nominatim |-> NomLocation(10, 10, <<"a">>), bing |-> BingError]}

NextTodo ==
    \/ \E l \in LocIds : NewLocalizacion(l, LatLngs, Direcciones, {EmptyDict})
    \/ LocProcesar(1, UnaRespuesta)
    \/ LocObtenerDireccion(1, UnaRespuesta)
    \/ LocObtenerImagen(1, UnaRespuesta)
    \/ NewRutaCon({<<>>}, {EmptyDict})
    \/ RutaProcesar(UnaRespuesta)
    \/ RutaKilometros(UnaRespuesta)
    \/ RutaIndicacionesTraducir(UnaRespuesta)
    \/ RutaObtenerImagen(UnaRespuesta)
    \/ RutaGeodesica(UnaRespuesta)

SpecTodo == InitOpen /\ [][NextTodo]_vars

(***************************************************************************)
(* Resolution is one-directional (SpecTodo).                               *)
(***************************************************************************)
\* the entity's data is processed
Procesada(e) == IF e = RutaId THEN ruta._data_procesada ELSE locs[e]._data_procesada

\* the data the entity holds
Datos(e) == IF e = RutaId THEN ruta.data ELSE locs[e].data

\* C21: once the data of an entity is processed, every later operation
\* (procesar, the accessors, obtener_imagen, the translation, the geodesic
\* distance, on it or on another entity) leaves it processed with the same
\* data, and a procesar of it is refused without any remote call
C21_ResolvedStays ==
    [][\A e \in Entities :
          Procesada(e) =>
              /\ Procesada(e)'
              /\ Datos(e)' = Datos(e)
              /\ (last'.who = e /\ last'.op = "procesar") =>
                    /\ ErrorKind(last'.ret.err) = "AlreadyResolved"
                    /\ trace' = <<>>]_vars

\* C21 happens: procesar is refused on a processed Localizacion that holds
\* an image and is the start of a processed, translated route
C21_Witness ==
    /\ LastWas(1, "procesar")
    /\ last.antes.exito
    /\ locs[1]._data_procesada /\ locs[1]._imagen_procesada
    /\ ruta._data_procesada /\ ruta._translator /\ ruta._inicio = 1

(***************************************************************************)
(* The stored image and the parameters of the call (SpecTodo).             *)
(***************************************************************************)
\* obtener_imagen was the last call on e, e had returned an image before,
\* and this call's parameters are not those of the call that fetched it
OtrosParametros(e) ==
    /\ LastWas(e, "obtener_imagen")
    /\ last.antes.imagen # None
    /\ last.arg # last.antes.imagen_arg

\* C29: when obtener_imagen of a Localizacion or of the route has returned
\* an image, a later obtener_imagen with other parameters returns the image
\* fetched with the first parameters and fetches nothing
C29_MemoIgnoresParams ==
    \A e \in Entities :
        OtrosParametros(e) =>
            /\ last.ret = Return(last.antes.imagen)
            /\ ImageFetches = {}

\* C29 happens: the route's image was fetched with some parameters and is
\* asked for with others, while its start holds an image as well
C29_Witness ==
    /\ OtrosParametros(RutaId)
    /\ last.antes.imagen_arg \in {PyDict(kw) : kw \in RutaKwargs}
    /\ last.arg \in {PyDict(kw) : kw \in RutaKwargs}
    /\ hist[1].imagen # None

(***************************************************************************)
(* A failed image fetch (SpecTodo).                                        *)
(***************************************************************************)
\* the entity's image is stored
ImagenProcesada(e) ==
    IF e = RutaId THEN ruta._imagen_procesada ELSE locs[e]._imagen_procesada

\* the image the entity holds
Imagen(e) == IF e = RutaId THEN ruta._imagen ELSE locs[e]._imagen

\* the last call was an obtener_imagen of e that issued its imagery request
\* and failed
FalloImagen(e) ==
    /\ LastWas(e, "obtener_imagen")
    /\ ImageFetches # {}
    /\ last.ret.err # "ok"

\* C30: an obtener_imagen whose imagery request fails raises 'Error, al
\* procesar REST', stores no image, and leaves the data processed and, when
\* they were processed before the call, unchanged; an obtener_imagen of the
\* same entity right after it issues the imagery request again and nothing
\* else, with the data unchanged
C30_FailedFetchNotMemoized ==
    [][\A e \in Entities :
          /\ FalloImagen(e)' =>
                /\ ErrorKind(last'.ret.err) = "ResolutionFailed"
                /\ ~ImagenProcesada(e)'
                /\ Imagen(e)' = None
                /\ Procesada(e)'
                /\ Procesada(e) => Datos(e)' = Datos(e)
          /\ (FalloImagen(e) /\ last'.who = e /\ last'.op = "obtener_imagen") =>
                /\ ImageFetches' # {}
                /\ ImageFetches' = 1..Len(trace')
                /\ Datos(e)' = Datos(e)]_vars

\* C30 happens: the data of the route were processed by an earlier call,
\* and its obtener_imagen issues the imagery request alone, which fails
C30_Witness ==
    /\ FalloImagen(RutaId)
    /\ last.antes.exito
    /\ ImageFetches = 1..Len(trace)
    /\ ~ruta._imagen_procesada

(***************************************************************************)
(* Two callers inside Localizacion.procesar() of the same object           *)
(* (SpecHilos).  The method takes no lock: a caller can be suspended       *)
(* between the test of _data_procesada, the remote call, the assignment of *)
(* data, the assignment of _data_procesada and the return.                 *)
(***************************************************************************)
\* the Localizacion the callers share
Compartida == 1

\* a mutation of ProcesarGuarda: _data_procesada is not tested
ProcesarGuarda_sinflag(self) ==
    IF self._latlng_recibido /\ self._direccion_recibida
    THEN "No es necesario procesar la ubicacion"
    ELSE IF self._direccion = None /\ self._latlng = None
    THEN "Error, no hay datos de ubicacion para procesar"
    ELSE "ok"

\* the tests of procesar() before its remote call: the message of the
\* exception they raise, or "ok"
ProcesarGuarda(self) ==
    IF self._data_procesada THEN "La localizacion ya ha sido procesada"
    ELSE IF self._latlng_recibido /\ self._direccion_recibida
    THEN "No es necesario procesar la ubicacion"
    ELSE IF self._direccion = None /\ self._latlng = None
    THEN "Error, no hay datos de ubicacion para procesar"
    ELSE "ok"

\* what procesar() sends to the service: the address when there is one,
\* else the coordinate
Ubicacion(self) == IF self._direccion # None THEN self._direccion ELSE self._latlng

\* a step of a caller: hilos, the shared object and the calls issued change
HiloPaso(t, h, self, calls) ==
    /\ hilos' = [hilos EXCEPT ![t] = h]
    /\ locs' = [locs EXCEPT ![Compartida] = self]
    /\ trace' = trace \o Tagged(Compartida, calls)
    /\ UNCHANGED <<servicio, ruta, hist, last>>

\* caller t enters procesar() and runs its tests
HiloEntra(t) ==
    /\ hilos[t].pc = "fuera"
    /\ locs[Compartida].creado
    /\ \E g \in {ProcesarGuarda(locs[Compartida])} :
          HiloPaso(t, [hilos[t] EXCEPT
                          !.pc = IF g = "ok" THEN "rest" ELSE "fin",
                          !.ret = IF g = "ok" THEN @ ELSE Raise(g),
                          !.antes = locs[Compartida],
                          !.solo = \A u \in Hilos \ {t} :
                                      hilos[u].pc \in {"fuera", "fin"}],
                   locs[Compartida], <<>>)

\* caller t makes the remote call; its failure ends procesar()
HiloRest(t, oracles) ==
    /\ hilos[t].pc = "rest"
    /\ \E o \in oracles :
          \E r \in {_rest_localizacion(locs[Compartida]._map_service,
                                       Ubicacion(locs[Compartida]),
                                       locs[Compartida]._kwargs, o)} :
              HiloPaso(t, [hilos[t] EXCEPT
                              !.pc = IF r.ret.err = "ok" THEN "data" ELSE "fin",
                              !.o = o,
                              !.val = IF r.ret.err = "ok" THEN r.ret.val ELSE @,
                              !.ret = IF r.ret.err = "ok" THEN @
                                      ELSE Raise("Error, al procesar REST")],
                       locs[Compartida], r.calls)

\* caller t assigns self.data
HiloData(t) ==
    /\ hilos[t].pc = "data"
    /\ HiloPaso(t, [hilos[t] EXCEPT !.pc = "flag"],
                [locs[Compartida] EXCEPT !.data = hilos[t].val], <<>>)

\* caller t assigns self._data_procesada
HiloFlag(t) ==
    /\ hilos[t].pc = "flag"
    /\ HiloPaso(t, [hilos[t] EXCEPT !.pc = "return"],
                [locs[Compartida] EXCEPT !._data_procesada = TRUE], <<>>)

\* caller t returns self.data
HiloReturn(t) ==
    /\ hilos[t].pc = "return"
    /\ HiloPaso(t, [hilos[t] EXCEPT !.pc = "fin",
                                    !.ret = Return(locs[Compartida].data)],
                locs[Compartida], <<>>)

NextHilos ==
    \/ NewLocalizacion(Compartida, LatLngs, Direcciones, {EmptyDict})
    \/ \E t \in Hilos : HiloEntra(t)
    \/ \E t \in Hilos : HiloRest(t, SmallOracles)
    \/ \E t \in Hilos : HiloData(t)
    \/ \E t \in Hilos : HiloFlag(t)
    \/ \E t \in Hilos : HiloReturn(t)

SpecHilos == Init /\ [][NextHilos]_vars

\* a caller that is alone in procesar() from entry to return does what the
\* method does when it runs in one piece
HiloSoloComoProcesar ==
    \A t \in Hilos :
        (hilos[t].pc = "fin" /\ \A u \in Hilos \ {t} : hilos[u].pc = "fuera") =>
            \E r \in {Localizacion_procesar(hilos[t].antes, hilos[t].o)} :
                /\ locs[Compartida] = r.self
                /\ hilos[t].ret = r.ret
                /\ trace = Tagged(Compartida, r.calls)

\* both callers have returned from procesar() with the data
AmbosExito == \A t \in Hilos : hilos[t].pc = "fin" /\ hilos[t].ret.err = "ok"

\* some caller entered procesar() while another was inside it
Solapados == \E t \in Hilos : hilos[t].pc # "fuera" /\ ~hilos[t].solo

\* C23: two callers of procesar() on one unprocessed Localizacion both
\* return the data, after two geocoding calls, only when one entered while
\* the other was inside the method, each having passed the test of
\* _data_procesada before either assigned it; a caller that enters after
\* the flag is assigned is refused, so calls made one after the other never
\* both succeed
C23_GuardNotAtomic ==
    /\ AmbosExito =>
          /\ Solapados
          /\ \A t \in Hilos : ~hilos[t].antes._data_procesada
          /\ Cardinality(Geocodings) >= 2
    /\ \A t \in Hilos :
          (hilos[t].pc # "fuera" /\ hilos[t].antes._data_procesada) =>
              /\ hilos[t].pc = "fin"
              /\ ErrorKind(hilos[t].ret.err) = "AlreadyResolved"

\* C23 happens: both callers passed the test before either assigned the
\* flag, the service was asked twice, and both returned the data
C23_Witness ==
    /\ AmbosExito
    /\ Solapados
    /\ Cardinality(Geocodings) >= 2
    /\ locs[Compartida]._data_procesada

====
